---- MODULE Spec2Model ----
(***************************************************************************)
(* A model of the Supertonic TTS Python service (src/src/tts): the text    *)
(* preprocessor, the WAV assembly helpers, and the TTSService orchestrator *)
(* with the SupertonicTTS engine it drives.                                *)
(*                                                                         *)
(* Text is a sequence of characters, each character a one-character        *)
(* string.  A character outside ASCII is written by its code point, e.g.   *)
(* "U+2014" (em dash).  A language code is a two-character sequence.       *)
(***************************************************************************)
EXTENDS Integers, Sequences, FiniteSets, TLC

(***************************************************************************)
(* Bounds of the model.                                                    *)
(***************************************************************************)
MaxChunkTextLen == 4    \* longest text given to chunk_text
MaxChunkLen == 3        \* largest max_len given to chunk_text
MaxBodyTokens == 2      \* tokens in a text given to preprocess_text
MaxMixSegments == 2     \* segments given to mix_languages
MaxDurNum == 4          \* largest silence duration, in units of 1/DurDen s
MaxConcatBuffers == 3   \* buffers given to concatenate_wav_buffers
MaxParseTokens == 4     \* tokens of a text given to parse_language_segments
MaxBatch == 2           \* durations in a batch given to _sample_noisy_latent
MaxTotalSteps == 3      \* diffusion steps of one run of _infer
MaxSamples == 2         \* samples of an array given to _array_to_wav
MaxWrapTokens == 3      \* tokens of a text given to wrap_with_language_tags
MaxSplitTextLen == 5    \* characters of a text given to split_into_chunks
MaxSplitLength == 3     \* largest max_length given to split_into_chunks

(***************************************************************************)
(* Characters.                                                             *)
(***************************************************************************)
LowerLetters ==
    {"a","b","c","d","e","f","g","h","i","j","k","l","m",
     "n","o","p","q","r","s","t","u","v","w","x","y","z"}

UpperLetters ==
    {"A","B","C","D","E","F","G","H","I","J","K","L","M",
     "N","O","P","Q","R","S","T","U","V","W","X","Y","Z"}

DigitChars == {"0","1","2","3","4","5","6","7","8","9"}

\* \w of the regex engine, on the characters of the model
WordChars == LowerLetters \cup UpperLetters \cup DigitChars \cup {"_"}

\* \s of the regex engine and the characters str.strip() removes
WhitespaceChars == {" ", "\n", "\t"}

IsSpace(c) == c \in WhitespaceChars

RECURSIVE LStrip(_)
LStrip(s) ==
    IF s # <<>> /\ IsSpace(Head(s)) THEN LStrip(Tail(s)) ELSE s

RECURSIVE RStrip(_)
RStrip(s) ==
    IF s # <<>> /\ IsSpace(s[Len(s)])
    THEN RStrip(SubSeq(s, 1, Len(s) - 1))
    ELSE s

\* str.strip()
Strip(s) == RStrip(LStrip(s))

\* s[i:] of Python, with i a 1-based position
From(s, i) == SubSeq(s, i, Len(s))

\* whether needle occurs in s at position i
OccursAt(s, i, needle) ==
    /\ i >= 1
    /\ i + Len(needle) - 1 <= Len(s)
    /\ SubSeq(s, i, i + Len(needle) - 1) = needle

\* str.count(needle): non-overlapping occurrences, left to right
RECURSIVE CountFrom(_, _, _)
CountFrom(s, i, needle) ==
    IF i + Len(needle) - 1 > Len(s) THEN 0
    ELSE IF OccursAt(s, i, needle)
         THEN 1 + CountFrom(s, i + Len(needle), needle)
         ELSE CountFrom(s, i + 1, needle)

Count(s, needle) == CountFrom(s, 1, needle)

RECURSIVE Flatten(_)
Flatten(ss) == IF ss = <<>> THEN <<>> ELSE Head(ss) \o Flatten(Tail(ss))

\* ' '.join(parts)
RECURSIVE JoinSpace(_)
JoinSpace(parts) ==
    IF parts = <<>> THEN <<>>
    ELSE IF Len(parts) = 1 THEN parts[1]
    ELSE parts[1] \o <<" ">> \o JoinSpace(Tail(parts))

(***************************************************************************)
(* tts/utils.py: validate_voice, parse_rate_to_speed, detect_language.     *)
(***************************************************************************)
VOICES == {"F1", "F2", "F3", "F4", "F5", "M1", "M2", "M3", "M4", "M5"}

\* variants of validate_voice: one that checks nothing, one that ignores its
\* argument; the properties of validate_voice tell them from the code
validate_voice_unchecked(voice) == voice

validate_voice_always_default(voice) == "F1"

validate_voice(voice) == IF voice \in VOICES THEN voice ELSE "F1"

EN == <<"e", "n">>
KO == <<"k", "o">>
ES == <<"e", "s">>
PT == <<"p", "t">>
FR == <<"f", "r">>
SUPPORTED_LANGUAGES == {EN, KO, ES, PT, FR}

is_supported_language(lang) == lang \in SUPPORTED_LANGUAGES

\* a variant that returns any code as it is
detect_language_unchecked(lang) == lang

detect_language(lang) == IF is_supported_language(lang) THEN lang ELSE ES

(***************************************************************************)
(* tts/utils.py: parse_language_segments: finditer over the tag pattern,   *)
(* an opening tag of two lowercase letters, a body free of "<", and the    *)
(* closing tag of the same two letters.                                    *)
(***************************************************************************)
\* position of the first "<" at or after i, Len(s)+1 when there is none
RECURSIVE NextLt(_, _)
NextLt(s, i) ==
    IF i > Len(s) THEN i
    ELSE IF s[i] = "<" THEN i ELSE NextLt(s, i + 1)

\* a variant of the tag pattern without the back-reference: any closing
\* tag of two lowercase letters ends the match
TagMatchEnd_any_closing_code(s, i) ==
    IF /\ i + 3 <= Len(s)
       /\ s[i] = "<"
       /\ s[i + 1] \in LowerLetters
       /\ s[i + 2] \in LowerLetters
       /\ s[i + 3] = ">"
    THEN LET j == NextLt(s, i + 4)
         IN IF /\ j + 4 <= Len(s)
               /\ s[j + 1] = "/"
               /\ s[j + 2] \in LowerLetters
               /\ s[j + 3] \in LowerLetters
               /\ s[j + 4] = ">"
            THEN j + 5
            ELSE 0
    ELSE 0

\* the position after a match of the tag pattern starting at i, 0 when the
\* pattern does not match at i.  [^<]* stops at the next "<", which must
\* open the closing tag of the same code.
TagMatchEnd(s, i) ==
    IF /\ i + 3 <= Len(s)
       /\ s[i] = "<"
       /\ s[i + 1] \in LowerLetters
       /\ s[i + 2] \in LowerLetters
       /\ s[i + 3] = ">"
    THEN LET j == NextLt(s, i + 4)
         IN IF /\ j + 4 <= Len(s)
               /\ s[j + 1] = "/"
               /\ s[j + 2] = s[i + 1]
               /\ s[j + 3] = s[i + 2]
               /\ s[j + 4] = ">"
            THEN j + 5
            ELSE 0
    ELSE 0

RECURSIVE ScanSegments(_, _)
ScanSegments(s, i) ==
    IF i > Len(s) THEN <<>>
    ELSE LET e == TagMatchEnd(s, i)
         IN IF e = 0 THEN ScanSegments(s, i + 1)
            ELSE LET lang == SubSeq(s, i + 1, i + 2)
                     text_content == Strip(SubSeq(s, i + 4, e - 6))
                 IN (IF text_content # <<>>
                     THEN << <<lang, text_content>> >>
                     ELSE <<>>) \o ScanSegments(s, e)

\* a variant that reads a text without segments as one segment of the
\* default language
parse_language_segments_or_whole_text(tagged_text) ==
    LET segments == ScanSegments(tagged_text, 1)
    IN IF segments = <<>> /\ Strip(tagged_text) # <<>>
       THEN << <<ES, Strip(tagged_text)>> >>
       ELSE segments

parse_language_segments(tagged_text) == ScanSegments(tagged_text, 1)

(***************************************************************************)
(* tts/preprocessor.py: has_language_tags, preprocess_text, mix_languages. *)
(***************************************************************************)
LangOpen(lang) == <<"<">> \o lang \o <<">">>
LangClose(lang) == <<"<", "/">> \o lang \o <<">">>

\* re.match(r'^<([a-z]{2})>', text)
has_language_tags(text) ==
    /\ Len(text) >= 4
    /\ text[1] = "<"
    /\ text[2] \in LowerLetters
    /\ text[3] \in LowerLetters
    /\ text[4] = ">"

\* unicodedata.normalize('NFKD', c) for the characters of the model: the
\* horizontal ellipsis decomposes into three full stops, the acute accent
\* into a space and a combining accent, the non-breaking hyphen into the
\* hyphen U+2010; every other character of the model is its own
\* decomposition.
NFKD(c) ==
    CASE c = "U+2026" -> <<".", ".", ".">>
      [] c = "U+00B4" -> <<" ", "U+0301">>
      [] c = "U+2011" -> <<"U+2010">>
      [] OTHER -> <<c>>

RECURSIVE normalize(_)
normalize(text) ==
    IF text = <<>> THEN <<>> ELSE NFKD(Head(text)) \o normalize(Tail(text))

\* the characters of the model inside the ranges of emoji_pattern
EmojiChars == {"U+1F600", "U+2665", "U+2606", "U+2661", "U+2702"}

\* the replacements table; every key and every value is one character and
\* no value is a key, so the successive str.replace calls act per character
Replacement(c) ==
    CASE c \in {"U+2013", "U+2011", "U+2014"} -> "-"
      [] c = "_" -> " "
      [] c \in {"U+201C", "U+201D"} -> "\""
      [] c \in {"U+2018", "U+2019", "U+00B4", "U+0060"} -> "'"
      [] c \in {"[", "]", "|", "/", "#", "U+2192", "U+2190"} -> " "
      [] OTHER -> c

\* the class of "Remove special symbols": three hearts and stars, the
\* copyright sign and the backslash
SpecialSymbols == {"U+2665", "U+2606", "U+2661", "U+00A9", "\\"}

\* re.sub(' c', 'c', text): one pass, left to right, non-overlapping
RECURSIVE SubSpaceBefore(_, _)
SubSpaceBefore(s, c) ==
    IF s = <<>> THEN <<>>
    ELSE IF Len(s) >= 2 /\ s[1] = " " /\ s[2] = c
         THEN <<c>> \o SubSpaceBefore(From(s, 3), c)
         ELSE <<s[1]>> \o SubSpaceBefore(Tail(s), c)

FixSpacing(s) ==
    LET a == SubSpaceBefore(s, ",")
        b == SubSpaceBefore(a, ".")
        c == SubSpaceBefore(b, "!")
        d == SubSpaceBefore(c, "?")
        e == SubSpaceBefore(d, ";")
        f == SubSpaceBefore(e, ":")
    IN SubSpaceBefore(f, "'")

\* text.replace(qq, q): one pass, left to right, non-overlapping
RECURSIVE ReplacePair(_, _)
ReplacePair(s, q) ==
    IF Len(s) < 2 THEN s
    ELSE IF s[1] = q /\ s[2] = q
         THEN <<q>> \o ReplacePair(From(s, 3), q)
         ELSE <<s[1]>> \o ReplacePair(Tail(s), q)

HasPair(s, q) == \E i \in 1..(Len(s) - 1) : s[i] = q /\ s[i + 1] = q

\* while qq in text: text = text.replace(qq, q)
RECURSIVE DedupQuotes(_, _)
DedupQuotes(s, q) ==
    IF HasPair(s, q) THEN DedupQuotes(ReplacePair(s, q), q) ELSE s

\* re.sub(r'\s+', ' ', text)
RECURSIVE CollapseWhitespace(_)
CollapseWhitespace(s) ==
    IF s = <<>> THEN <<>>
    ELSE IF IsSpace(s[1])
         THEN <<" ">> \o CollapseWhitespace(LStrip(s))
         ELSE <<s[1]>> \o CollapseWhitespace(Tail(s))

\* the characters after which no full stop is appended
TerminalPunct ==
    {".", "!", "?", ";", ":", ",", "'", "\"", ")", "]", "}",
     "U+2026", "U+3002", "U+300D", "U+300F", "U+3011", "U+3009",
     "U+300B", "U+203A", "U+00BB"}

EndsWithTerminal(s) == s # <<>> /\ s[Len(s)] \in TerminalPunct

preprocess_text(text, lang) ==
    LET t1 == normalize(text)
        t2 == SelectSeq(t1, LAMBDA c : c \notin EmojiChars)
        t3 == [i \in 1..Len(t2) |-> Replacement(t2[i])]
        t4 == SelectSeq(t3, LAMBDA c : c \notin SpecialSymbols)
        t5 == FixSpacing(t4)
        t6 == DedupQuotes(DedupQuotes(DedupQuotes(t5, "\""), "'"), "U+0060")
        t7 == Strip(CollapseWhitespace(t6))
        t8 == IF EndsWithTerminal(t7) THEN t7 ELSE t7 \o <<".">>
    IN IF has_language_tags(t8)
       THEN t8
       ELSE LangOpen(lang) \o t8 \o LangClose(lang)

mix_languages(segments) ==
    JoinSpace([i \in 1..Len(segments) |->
        LangOpen(segments[i][1])
            \o preprocess_text(segments[i][2], segments[i][1])
            \o LangClose(segments[i][1])])

(***************************************************************************)
(* tts/utils.py: chunk_text.                                               *)
(***************************************************************************)
Max(S) == CHOOSE x \in S : \A y \in S : y <= x

\* position of the last character of the whitespace run that holds i
RECURSIVE RunEnd(_, _)
RunEnd(s, i) ==
    IF i + 1 <= Len(s) /\ IsSpace(s[i + 1]) THEN RunEnd(s, i + 1) ELSE i

\* the paragraph separator, a newline, any whitespace, one or more
\* newlines: the position of the last character of its match starting at
\* i, 0 when it does not match at i.  The match starts at a newline and
\* ends at the last newline of the whitespace run.
ParagraphBreakEnd(s, i) ==
    IF s[i] = "\n"
    THEN LET ks == {k \in (i + 1)..RunEnd(s, i) : s[k] = "\n"}
         IN IF ks = {} THEN 0 ELSE Max(ks)
    ELSE 0

\* re.split(separator, s): pieces between the matches, left to right
RECURSIVE SplitParagraphs(_, _, _)
SplitParagraphs(s, i, start) ==
    IF i > Len(s) THEN << SubSeq(s, start, Len(s)) >>
    ELSE LET k == ParagraphBreakEnd(s, i)
         IN IF k = 0 THEN SplitParagraphs(s, i + 1, start)
            ELSE << SubSeq(s, start, i - 1) >>
                     \o SplitParagraphs(s, k + 1, k + 1)

\* the negative lookbehinds of the sentence pattern
Abbreviations ==
    { <<"M","r",".">>, <<"M","r","s",".">>, <<"M","s",".">>,
      <<"D","r",".">>, <<"P","r","o","f",".">>, <<"S","r",".">>,
      <<"J","r",".">>, <<"P","h",".","D",".">>, <<"e","t","c",".">>,
      <<"e",".","g",".">>, <<"i",".","e",".">>, <<"v","s",".">>,
      <<"I","n","c",".">>, <<"L","t","d",".">>, <<"C","o",".">>,
      <<"C","o","r","p",".">>, <<"S","t",".">>, <<"A","v","e",".">>,
      <<"B","l","v","d",".">> }

\* whether s[1..e] ends with w
EndsAt(s, e, w) ==
    /\ e - Len(w) + 1 >= 1
    /\ SubSeq(s, e - Len(w) + 1, e) = w

\* a capital initial ends at e: word boundary, one capital, a full stop
InitialEndsAt(s, e) ==
    /\ e >= 2
    /\ s[e] = "."
    /\ s[e - 1] \in UpperLetters
    /\ (e = 2 \/ s[e - 2] \notin WordChars)

\* the sentence pattern matches at i: whitespace that follows . ! or ?
\* and follows neither an abbreviation nor a capital initial
SentenceBreakAt(s, i) ==
    /\ i >= 2
    /\ IsSpace(s[i])
    /\ s[i - 1] \in {".", "!", "?"}
    /\ \A w \in Abbreviations : ~EndsAt(s, i - 1, w)
    /\ ~InitialEndsAt(s, i - 1)

RECURSIVE SplitSentences(_, _, _)
SplitSentences(s, i, start) ==
    IF i > Len(s) THEN << SubSeq(s, start, Len(s)) >>
    ELSE IF SentenceBreakAt(s, i)
         THEN LET j == RunEnd(s, i)
              IN << SubSeq(s, start, i - 1) >>
                     \o SplitSentences(s, j + 1, j + 1)
         ELSE SplitSentences(s, i + 1, start)

\* the loop over the sentences of one paragraph and the flush after it
RECURSIVE PackSentences(_, _, _)
PackSentences(sentences, current_chunk, max_len) ==
    LET flush == IF current_chunk # <<>>
                 THEN << Strip(current_chunk) >>
                 ELSE <<>>
    IN IF sentences = <<>> THEN flush
       ELSE LET sentence == Head(sentences)
            IN IF Len(current_chunk) + Len(sentence) + 1 <= max_len
               THEN PackSentences(Tail(sentences),
                        current_chunk
                            \o (IF current_chunk # <<>> THEN <<" ">> ELSE <<>>)
                            \o sentence,
                        max_len)
               ELSE flush \o PackSentences(Tail(sentences), sentence, max_len)

chunk_text(text, max_len) ==
    LET pieces == SplitParagraphs(Strip(text), 1, 1)
        stripped == [i \in 1..Len(pieces) |-> Strip(pieces[i])]
        paragraphs == SelectSeq(stripped, LAMBDA p : p # <<>>)
    IN Flatten([i \in 1..Len(paragraphs) |->
           PackSentences(SplitSentences(paragraphs[i], 1, 1), <<>>, max_len)])

(***************************************************************************)
(* core/text_processing.py: language tagging.                              *)
(* LANGUAGE_TAG_PATTERN is ^<([a-z]{2})>(.*?)</([a-z]{2})>$ with DOTALL:   *)
(* on a stripped text it matches when the text begins with an opening tag  *)
(* and ends with a closing tag that starts after the opening tag; group 2  *)
(* is what lies between them.                                              *)
(***************************************************************************)
NoMatch == [matched |-> FALSE, open |-> <<>>, body |-> <<>>, close |-> <<>>]

\* a variant of the pattern whose body admits no '<'
LANGUAGE_TAG_PATTERN_match_plain_body(text) ==
    LET n == Len(text)
    IN IF /\ n >= 9
          /\ text[1] = "<" /\ text[2] \in LowerLetters
          /\ text[3] \in LowerLetters /\ text[4] = ">"
          /\ text[n - 4] = "<" /\ text[n - 3] = "/"
          /\ text[n - 2] \in LowerLetters /\ text[n - 1] \in LowerLetters
          /\ text[n] = ">"
          /\ \A i \in 5..(n - 5) : text[i] # "<"
       THEN [matched |-> TRUE, open |-> SubSeq(text, 2, 3),
             body |-> SubSeq(text, 5, n - 5), close |-> SubSeq(text, n - 2, n - 1)]
       ELSE NoMatch

\* LANGUAGE_TAG_PATTERN.match(text)
LANGUAGE_TAG_PATTERN_match(text) ==
    LET n == Len(text)
    IN IF /\ n >= 9
          /\ text[1] = "<" /\ text[2] \in LowerLetters
          /\ text[3] \in LowerLetters /\ text[4] = ">"
          /\ text[n - 4] = "<" /\ text[n - 3] = "/"
          /\ text[n - 2] \in LowerLetters /\ text[n - 1] \in LowerLetters
          /\ text[n] = ">"
       THEN [matched |-> TRUE, open |-> SubSeq(text, 2, 3),
             body |-> SubSeq(text, 5, n - 5), close |-> SubSeq(text, n - 2, n - 1)]
       ELSE NoMatch

\* core has_language_tags(text)
core_has_language_tags(text) == LANGUAGE_TAG_PATTERN_match(Strip(text)).matched

\* None
NoLanguageFound == <<>>

extract_language_from_tags(text) ==
    LET match == LANGUAGE_TAG_PATTERN_match(Strip(text))
    IN IF match.matched /\ match.open = match.close
       THEN match.open ELSE NoLanguageFound

strip_language_tags(text) ==
    LET match == LANGUAGE_TAG_PATTERN_match(Strip(text))
    IN IF match.matched THEN Strip(match.body) ELSE text

wrap_with_language_tags(text_arg, lang) ==
    LET text == Strip(text_arg)
    IN IF core_has_language_tags(text)
          /\ extract_language_from_tags(text) = lang
       THEN text
       ELSE LangOpen(lang) \o strip_language_tags(text) \o LangClose(lang)

(***************************************************************************)
(* core/text_processing.py: sentences and chunks.                          *)
(***************************************************************************)
\* SENTENCE_ENDINGS = [.!?]+\s*
EndingChars == {".", "!", "?"}

RECURSIVE SkipWhile(_, _, _)
\* the first position from i on whose character is outside chars
SkipWhile(s, i, chars) ==
    IF i <= Len(s) /\ s[i] \in chars THEN SkipWhile(s, i + 1, chars) ELSE i

\* the last position of the match of SENTENCE_ENDINGS that starts at i
EndingMatchEnd(s, i) ==
    SkipWhile(s, SkipWhile(s, i, EndingChars), WhitespaceChars) - 1

RECURSIVE SENTENCE_ENDINGS_split(_, _, _)
\* SENTENCE_ENDINGS.split(text): the pieces between the matches, the
\* empty ones included; i scans, start is where the current piece began
SENTENCE_ENDINGS_split(text, i, start) ==
    IF i > Len(text) THEN << SubSeq(text, start, Len(text)) >>
    ELSE IF text[i] \in EndingChars
         THEN LET e == EndingMatchEnd(text, i)
              IN << SubSeq(text, start, i - 1) >>
                 \o SENTENCE_ENDINGS_split(text, e + 1, e + 1)
         ELSE SENTENCE_ENDINGS_split(text, i + 1, start)

RECURSIVE SENTENCE_ENDINGS_search(_, _)
\* SENTENCE_ENDINGS.search(text, pos): the text of the first match at or
\* after the 0-based position pos, "" when there is none
SENTENCE_ENDINGS_search(text, pos) ==
    IF pos >= Len(text) THEN <<>>
    ELSE IF text[pos + 1] \in EndingChars
         THEN SubSeq(text, pos + 1, EndingMatchEnd(text, pos + 1))
         ELSE SENTENCE_ENDINGS_search(text, pos + 1)

RECURSIVE SentencesFrom(_, _, _)
\* the loop of split_into_sentences from the i-th piece on (i from 1)
SentencesFrom(text, sentences, i) ==
    IF i > Len(sentences) THEN <<>>
    ELSE LET sentence == sentences[i]
             ending == SENTENCE_ENDINGS_search(
                           text, IF i = 1 THEN Len(sentence) ELSE 0)
         IN (IF Strip(sentence) # <<>>
             THEN << Strip(sentence) \o ending >> ELSE <<>>)
            \o SentencesFrom(text, sentences, i + 1)

split_into_sentences(text) ==
    SentencesFrom(text, SENTENCE_ENDINGS_split(text, 1, 1), 1)

RECURSIVE str_split(_)
\* str.split(): the maximal runs of characters that are not whitespace
str_split(s) ==
    LET b == SkipWhile(s, 1, WhitespaceChars)
        e == CHOOSE j \in b..(Len(s) + 1) :
                 /\ j > Len(s) \/ s[j] \in WhitespaceChars
                 /\ \A k \in b..(j - 1) : s[k] \notin WhitespaceChars
    IN IF b > Len(s) THEN <<>>
       ELSE << SubSeq(s, b, e - 1) >> \o str_split(SubSeq(s, e, Len(s)))

\* current_chunk += (" " if current_chunk else "") + piece
AddToChunk(current_chunk, piece) ==
    current_chunk \o (IF current_chunk # <<>> THEN <<" ">> ELSE <<>>) \o piece

RECURSIVE PackWordsOfSentence(_, _, _)
\* the word loop for a sentence longer than max_length; st is
\* [chunks, current_chunk]
PackWordsOfSentence(words, st, max_length) ==
    IF words = <<>> THEN st
    ELSE LET word == Head(words)
         IN PackWordsOfSentence(Tail(words),
              IF Len(st.current_chunk) + Len(word) + 1 <= max_length
              THEN [st EXCEPT !.current_chunk = AddToChunk(@, word)]
              ELSE [chunks |-> IF st.current_chunk # <<>>
                               THEN Append(st.chunks, Strip(st.current_chunk))
                               ELSE st.chunks,
                    current_chunk |-> word],
              max_length)

RECURSIVE PackSentenceList(_, _, _)
\* the sentence loop of split_into_chunks, preserve_sentences=True
PackSentenceList(sentences, st, max_length) ==
    IF sentences = <<>> THEN st
    ELSE LET sentence == Head(sentences)
             flushed == IF st.current_chunk # <<>>
                        THEN Append(st.chunks, Strip(st.current_chunk))
                        ELSE st.chunks
         IN PackSentenceList(Tail(sentences),
              IF Len(st.current_chunk) + Len(sentence) + 1 <= max_length
              THEN [st EXCEPT !.current_chunk = AddToChunk(@, sentence)]
              ELSE IF Len(sentence) <= max_length
                   THEN [chunks |-> flushed, current_chunk |-> sentence]
                   ELSE PackWordsOfSentence(
                            str_split(sentence),
                            [chunks |-> flushed, current_chunk |-> <<>>],
                            max_length),
              max_length)

RECURSIVE PackWordList(_, _, _)
\* the word loop of split_into_chunks, preserve_sentences=False: the
\* current chunk is appended whether or not it holds anything
PackWordList(words, st, max_length) ==
    IF words = <<>> THEN st
    ELSE LET word == Head(words)
         IN PackWordList(Tail(words),
              IF Len(st.current_chunk) + Len(word) + 1 <= max_length
              THEN [st EXCEPT !.current_chunk = AddToChunk(@, word)]
              ELSE [chunks |-> Append(st.chunks, Strip(st.current_chunk)),
                    current_chunk |-> word],
              max_length)

split_into_chunks(text, max_length, preserve_sentences) ==
    IF Len(text) <= max_length
    THEN IF Strip(text) # <<>> THEN << Strip(text) >> ELSE <<>>
    ELSE LET start == [chunks |-> <<>>, current_chunk |-> <<>>]
             st == IF preserve_sentences
                   THEN PackSentenceList(split_into_sentences(text), start,
                                         max_length)
                   ELSE PackWordList(str_split(text), start, max_length)
         IN IF st.current_chunk # <<>>
            THEN Append(st.chunks, Strip(st.current_chunk))
            ELSE st.chunks

(***************************************************************************)
(* WAV buffers.  A buffer is its 44-byte header, field by field, and its   *)
(* data section, a sequence of bytes.                                      *)
(***************************************************************************)
\* durations are multiples of 1/DurDen seconds; a dyadic duration times an
\* integer sample rate is exact in floating point
DurDen == 2 ^ 15

\* b'', what concatenate_wav_buffers returns for no buffers
EmptyBytes == [empty |-> TRUE]

ZeroBytes(n) == [i \in 1..n |-> 0]

\* variants: the size of the first buffer only; the data read from byte 45
SumDataSizes_first_only(buffers) ==
    IF buffers = <<>> THEN 0 ELSE Head(buffers).data_size

RECURSIVE SumDataSizes(_)
SumDataSizes(buffers) ==
    IF buffers = <<>> THEN 0
    ELSE Head(buffers).data_size + SumDataSizes(Tail(buffers))

Min(a, b) == IF a <= b THEN a ELSE b

DataSlice_from_45(buffer) ==
    SubSeq(buffer.data, 2, IF buffer.data_size <= Len(buffer.data)
                           THEN buffer.data_size ELSE Len(buffer.data))

\* buffer[44:44 + data_size]
DataSlice(buffer) ==
    SubSeq(buffer.data, 1, Min(buffer.data_size, Len(buffer.data)))

\* combined[offset:offset + size] = piece on the data section of a
\* bytearray, offset counted from the end of the header: the slice is
\* clipped to the bytes there are and replaced by piece, of whatever length
SliceAssign(combined, offset, size, piece) ==
    LET lo == Min(offset, Len(combined))
        hi == Min(offset + size, Len(combined))
    IN SubSeq(combined, 1, lo) \o piece \o SubSeq(combined, hi + 1, Len(combined))

RECURSIVE CopyData(_, _, _)
\* the loop that copies the data sections at a running offset
CopyData(buffers, combined, offset) ==
    IF buffers = <<>> THEN combined
    ELSE CopyData(Tail(buffers),
                  SliceAssign(combined, offset, Head(buffers).data_size,
                              DataSlice(Head(buffers))),
                  offset + Head(buffers).data_size)

concatenate_wav_buffers(buffers) ==
    IF buffers = <<>> THEN EmptyBytes
    ELSE IF Len(buffers) = 1 THEN buffers[1]
    ELSE LET first_buffer == buffers[1]
             sample_rate == first_buffer.sample_rate
             bits_per_sample == first_buffer.bits_per_sample
             channels == first_buffer.channels
             block_align == (channels * bits_per_sample) \div 8
             byte_rate == sample_rate * block_align
             total_data_size == SumDataSizes(buffers)
         IN [ riff |-> "RIFF",
              riff_size |-> 36 + total_data_size,
              wave |-> "WAVE",
              fmt |-> "fmt ",
              fmt_size |-> 16,
              audio_format |-> 0,
              channels |-> channels,
              sample_rate |-> sample_rate,
              byte_rate |-> byte_rate,
              block_align |-> block_align,
              bits_per_sample |-> bits_per_sample,
              data_tag |-> "data",
              data_size |-> total_data_size,
              data |-> CopyData(buffers, ZeroBytes(total_data_size), 0) ]

\* round(duration_seconds * sample_rate), halves to the even neighbour
SilenceSamples_rounded(duration_num, sample_rate) ==
    LET product == duration_num * sample_rate
        q == product \div DurDen
        rem == product % DurDen
    IN IF 2 * rem > DurDen THEN q + 1
       ELSE IF 2 * rem = DurDen THEN q + (q % 2)
       ELSE q

\* int(duration_seconds * sample_rate) for a duration of num / DurDen s
SilenceSamples(duration_num, sample_rate) ==
    (duration_num * sample_rate) \div DurDen

create_silence_buffer(duration_num, sample_rate) ==
    LET silence_samples == SilenceSamples(duration_num, sample_rate)
    IN [ riff |-> "RIFF",
         riff_size |-> 36 + silence_samples * 2,
         wave |-> "WAVE",
         fmt |-> "fmt ",
         fmt_size |-> 16,
         audio_format |-> 1,
         channels |-> 1,
         sample_rate |-> sample_rate,
         byte_rate |-> sample_rate * 2,
         block_align |-> 2,
         bits_per_sample |-> 16,
         data_tag |-> "data",
         data_size |-> silence_samples * 2,
         data |-> ZeroBytes(silence_samples * 2) ]

(***************************************************************************)
(* tts/utils.py: parse_rate_to_speed.  A rate is a character sequence, the *)
(* empty sequence standing for None and for ''.  The speed is in           *)
(* hundredths: 150 is the multiplier 1.5.                                  *)
(***************************************************************************)
DigitValue(c) ==
    CASE c = "0" -> 0 [] c = "1" -> 1 [] c = "2" -> 2 [] c = "3" -> 3
      [] c = "4" -> 4 [] c = "5" -> 5 [] c = "6" -> 6 [] c = "7" -> 7
      [] c = "8" -> 8 [] c = "9" -> 9

\* position of the last digit of the run of digits starting at i, i - 1
\* when s[i] is no digit
RECURSIVE DigitsEnd(_, _)
DigitsEnd(s, i) ==
    IF i <= Len(s) /\ s[i] \in DigitChars THEN DigitsEnd(s, i + 1) ELSE i - 1

\* int(digits)
RECURSIVE DigitsToInt(_)
DigitsToInt(ds) ==
    IF ds = <<>> THEN 0
    ELSE 10 * DigitsToInt(SubSeq(ds, 1, Len(ds) - 1)) + DigitValue(ds[Len(ds)])

parse_rate_to_speed(rate) ==
    IF rate = <<>> THEN 100
    ELSE LET signed == rate[1] \in {"+", "-"}
             first == IF signed THEN 2 ELSE 1
             last == DigitsEnd(rate, first)
             matched == /\ last >= first
                        /\ last + 1 <= Len(rate)
                        /\ rate[last + 1] = "%"
         IN IF ~matched THEN 100
            ELSE LET sign == IF rate[1] = "-" THEN -1 ELSE 1
                     value == DigitsToInt(SubSeq(rate, first, last))
                 IN 100 + sign * value

(***************************************************************************)
(* tts/supertonic_client.py: _array_to_wav.  A sample of the vocoder is a  *)
(* multiple of 1/SampleDen.                                                *)
(***************************************************************************)
SampleDen == 2 ^ 2
PCM_SCALE == 32767

Clip_nothing(q) == q

\* np.clip(x, -1.0, 1.0)
Clip(q) == IF q < -SampleDen THEN -SampleDen
           ELSE IF q > SampleDen THEN SampleDen ELSE q

\* (x * 32767).astype(np.int16): truncation toward zero
ToInt16(q) ==
    IF q >= 0 THEN (q * PCM_SCALE) \div SampleDen
    ELSE -(((-q) * PCM_SCALE) \div SampleDen)

\* struct.pack('<h', v): two bytes, little endian, two's complement
PackInt16(v) == LET u == v % 65536 IN << u % 256, u \div 256 >>

_array_to_wav(wav_array, sample_rate) ==
    LET wav_int16 == [i \in 1..Len(wav_array) |-> ToInt16(Clip(wav_array[i]))]
        data_size == Len(wav_int16) * 2
    IN [ riff |-> "RIFF",
         riff_size |-> 36 + data_size,
         wave |-> "WAVE",
         fmt |-> "fmt ",
         fmt_size |-> 16,
         audio_format |-> 1,
         channels |-> 1,
         sample_rate |-> sample_rate,
         byte_rate |-> sample_rate * 2,
         block_align |-> 2,
         bits_per_sample |-> 16,
         data_tag |-> "data",
         data_size |-> data_size,
         data |-> Flatten([i \in 1..Len(wav_int16) |-> PackInt16(wav_int16[i])]) ]

\* an error is the place that raised it and its message
Err(origin, message) == [origin |-> origin, message |-> message]
NoError == Err("none", "")

(***************************************************************************)
(* Single-precision floats.  The durations are a float32 array, and NumPy  *)
(* rounds the result of each operation on float32 values to the nearest    *)
(* float32, ties to even.  A float32 is [m, e], the number m * 2^e with m  *)
(* odd and of 24 bits at most, or [0, 0].  Infinities, NaN, overflow and   *)
(* subnormal numbers are left out: the durations modelled are far from     *)
(* them, and the infinite durations of a division by 0.0 are handled where *)
(* the division is made.  Integers of the model are 32-bit: an operation   *)
(* on a value of 2^30 samples or more is an error of the evaluation.  Each *)
(* operation works on the values of its operands, which The binds once.    *)
(***************************************************************************)
\* the element of a set of one element
The(S) == CHOOSE x \in S : TRUE

Magnitude(n) == IF n < 0 THEN -n ELSE n

SignOf(n) == IF n < 0 THEN -1 ELSE 1

RECURSIVE BitLen(_)
\* the number of bits of the natural number n
BitLen(n) == IF n = 0 THEN 0 ELSE 1 + BitLen(n \div 2)

RECURSIVE Float32(_, _)
\* the float32 m * 2^e, for m of 24 bits at most
Float32(m, e) ==
    IF m = 0 THEN [m |-> 0, e |-> 0]
    ELSE IF m % 2 = 0 THEN Float32(m \div 2, e + 1)
    ELSE [m |-> m, e |-> e]

\* sign * (a + s) * 2^e rounded to the nearest float32, ties to even: s is
\* 0, or a fraction strictly between 0 and 1 when sticky, and then a has
\* 26 bits at least
RoundToFloat32(sign, a, sticky, e) ==
    LET Rounded(s, n, drop, st, x) ==
            LET kept == n \div 2 ^ drop
                rest == n % 2 ^ drop
                half == 2 ^ (drop - 1)
                up == \/ rest > half
                      \/ rest = half /\ (st \/ kept % 2 = 1)
            IN IF drop <= 0 THEN Float32(s * n, x)
               ELSE Float32(s * (IF up THEN kept + 1 ELSE kept), x + drop)
    IN The({ Rounded(v[1], v[2], BitLen(v[2]) - 24, v[3], v[4]) :
               v \in {<<sign, a, sticky, e>>} })

\* the exact product of the float32 f and the integer k, 0 < k < 2^16:
\* sign * (hi * 2^12 + lo) * 2^e
ExactProduct(f, k) ==
    LET Product(fv, g, low) ==
            [ sign |-> SignOf(fv.m),
              hi |-> (Magnitude(fv.m) \div 4096) * g.m + low \div 4096,
              lo |-> low % 4096,
              e |-> fv.e + g.e ]
    IN The({ Product(v[1], v[2], (Magnitude(v[1].m) % 4096) * v[2].m) :
               v \in {<<f, Float32(k, 0)>>} })

\* float32 * int, in single precision
MulInt(f, k) ==
    LET Rounded(p, drop) ==
            IF drop <= 0
            THEN RoundToFloat32(p.sign, p.hi * 4096 + p.lo, FALSE, p.e)
            ELSE RoundToFloat32(p.sign,
                                p.hi * 2 ^ (12 - drop) + p.lo \div 2 ^ drop,
                                p.lo % 2 ^ drop # 0, p.e + drop)
    IN The({ Rounded(p, BitLen(p.hi) - 18) : p \in {ExactProduct(f, k)} })

\* float32 * int in double precision, which holds the product exactly: the
\* sign, the whole part of the magnitude, and whether a fraction is left
MulIntDouble(f, k) ==
    LET Parts(p, t) ==
            IF t <= 0
            THEN [sign |-> p.sign,
                  whole |-> (p.hi * 4096 + p.lo) * 2 ^ (-t),
                  fraction |-> FALSE]
            ELSE IF t < 12
            THEN [sign |-> p.sign,
                  whole |-> p.hi * 2 ^ (12 - t) + p.lo \div 2 ^ t,
                  fraction |-> p.lo % 2 ^ t # 0]
            ELSE IF t - 12 < 30
            THEN [sign |-> p.sign, whole |-> p.hi \div 2 ^ (t - 12),
                  fraction |-> p.hi % 2 ^ (t - 12) # 0 \/ p.lo # 0]
            ELSE [sign |-> p.sign, whole |-> 0,
                  fraction |-> p.hi # 0 \/ p.lo # 0]
    IN The({ Parts(p, -p.e) : p \in {ExactProduct(f, k)} })

\* float32 + int, in single precision, for an integer k of 15 bits at most
AddInt(f, k) ==
    LET Sum(fv, kv, t, room) ==
            LET shift == IF t - room > 24 THEN 24 ELSE t - room
                \* f in units of 2^-room, and whether bits of f lie below
                whole == Magnitude(fv.m) \div 2 ^ shift
                sticky == Magnitude(fv.m) % 2 ^ shift # 0
                aligned == kv * 2 ^ room + SignOf(fv.m) * whole
                below == sticky /\ SignOf(fv.m) # SignOf(kv)
                exact == IF t <= 0 THEN fv.m * 2 ^ (-t) + kv
                         ELSE fv.m + kv * 2 ^ t
            IN IF fv.m = 0 THEN Float32(kv, 0)
               ELSE IF kv = 0 THEN fv
               ELSE IF t <= room
               THEN RoundToFloat32(SignOf(exact), Magnitude(exact), FALSE,
                                   IF t <= 0 THEN 0 ELSE -t)
               ELSE RoundToFloat32(SignOf(kv),
                                   Magnitude(aligned)
                                       - (IF below THEN 1 ELSE 0),
                                   sticky, -room)
    IN The({ Sum(v[1], v[2], -v[1].e, 29 - BitLen(Magnitude(v[2]))) :
               v \in {<<f, k>>} })

RECURSIVE QuotientBits(_, _, _, _)
\* n more bits of the quotient q, remainder r, of a division by b
QuotientBits(q, r, b, n) ==
    IF n = 0 THEN [q |-> q, r |-> r]
    ELSE The({ QuotientBits(v[1], v[2], v[3], v[4]) :
                 v \in { IF 2 * r >= b THEN <<2 * q + 1, 2 * r - b, b, n - 1>>
                         ELSE <<2 * q, 2 * r, b, n - 1>> } })

\* float32 / float32, in single precision, for g other than 0
DivFloat32(f, g) ==
    LET Quotient(fv, gv, a, b, n) ==
            IF a = 0 THEN fv
            ELSE The({ RoundToFloat32(SignOf(fv.m) * SignOf(gv.m), d.q,
                                      d.r # 0, fv.e - gv.e - n) :
                         d \in {QuotientBits(a \div b, a % b, b, n)} })
    IN The({ Quotient(v[1], v[2], Magnitude(v[1].m), Magnitude(v[2].m),
                      26 + BitLen(Magnitude(v[2].m))
                         - BitLen(Magnitude(v[1].m))) :
               v \in {<<f, g>>} })

\* float32 / int, in single precision
DivInt(f, k) == DivFloat32(f, Float32(k, 0))

\* astype(np.int32) and astype(np.int64): toward zero
Truncate(f) ==
    LET Whole(fv) ==
            IF fv.e >= 0 THEN fv.m * 2 ^ fv.e
            ELSE IF -fv.e > 24 THEN 0
            ELSE SignOf(fv.m) * (Magnitude(fv.m) \div 2 ^ (-fv.e))
    IN The({ Whole(fv) : fv \in {f} })

\* |f| < |g|, for values f and g
MagnitudeLess(f, g) ==
    LET a == Magnitude(f.m)
        b == Magnitude(g.m)
        top_f == BitLen(a) + f.e
        top_g == BitLen(b) + g.e
    IN IF b = 0 THEN FALSE
       ELSE IF a = 0 THEN TRUE
       ELSE IF top_f # top_g THEN top_f < top_g
       ELSE IF f.e >= g.e THEN a * 2 ^ (f.e - g.e) < b
       ELSE a < b * 2 ^ (g.e - f.e)

\* f < g
Less(f, g) ==
    \E v \in {<<f, g>>} :
        IF (v[1].m < 0) # (v[2].m < 0) THEN v[1].m < 0
        ELSE IF v[1].m < 0 THEN MagnitudeLess(v[2], v[1])
        ELSE MagnitudeLess(v[1], v[2])

\* the float32 of num / DurDen seconds
Seconds(num) == DivInt(Float32(num, 0), DurDen)

\* the Python float speed / 100 as the float32 it is converted to in an
\* operation with a float32 array
SpeedFloat32(speed) == DivFloat32(Float32(speed, 0), Float32(100, 0))

(***************************************************************************)
(* tts/supertonic_client.py: _sample_noisy_latent, _get_latent_mask and    *)
(* _length_to_mask.  duration is the batch of durations, a float32 array;  *)
(* sample_rate and the chunk sizes are Python integers, sample_rate below  *)
(* 2^16.  The product of the array by sample_rate is a float32 array.  The *)
(* product of the scalar duration.max() by sample_rate, and the sum and    *)
(* the quotient that follow, are float32 where NumPy treats Python         *)
(* integers as weak (NumPy 2) and float64 under the legacy promotion       *)
(* (NumPy 1): the code pins neither.  The float64 operations are exact on  *)
(* these values.  The result is the error raised or the shape of the       *)
(* latent: its length and the lengths the mask covers.                     *)
(***************************************************************************)
NumPyPromotions == {"weak", "legacy"}

\* lengths.max()
MaxOf(seq) == Max({seq[i] : i \in 1..Len(seq)})

\* duration.max()
MaxDuration(duration) ==
    The({ CHOOSE d \in {v[i] : i \in 1..Len(v)} :
              \A i \in 1..Len(v) : ~Less(d, v[i]) :
            v \in {duration} })

\* ((wav_len_max + chunk_size - 1) / chunk_size).astype(np.int32), where
\* wav_len_max = duration.max() * sample_rate
LatentLen(duration, sample_rate, chunk_size, promotion) ==
    IF promotion = "weak"
    THEN Truncate(DivInt(AddInt(AddInt(MulInt(MaxDuration(duration),
                                              sample_rate),
                                       chunk_size), -1),
                         chunk_size))
    ELSE \* float64: the operations are exact
         LET Exact(w) ==
                 IF w.sign > 0
                 THEN (w.whole + chunk_size - 1) \div chunk_size
                 ELSE IF w.whole >= chunk_size - 1
                 THEN -((w.whole - chunk_size + 1) \div chunk_size)
                 ELSE 0
         IN The({ Exact(w) :
                    w \in {MulIntDouble(MaxDuration(duration), sample_rate)} })

\* (duration * sample_rate).astype(np.int64)
WavLengths(duration, sample_rate) ==
    The({ [i \in 1..Len(v) |-> Truncate(MulInt(v[i], sample_rate))] :
            v \in {duration} })

\* _get_latent_mask: (wav_lengths + latent_size - 1) // latent_size
LatentLengths(wav_lengths, base_chunk_size, chunk_compress_factor) ==
    LET latent_size == base_chunk_size * chunk_compress_factor
    IN [i \in 1..Len(wav_lengths) |->
           (wav_lengths[i] + latent_size - 1) \div latent_size]

\* np.random.randn(bsz, latent_dim, latent_len) with latent_len < 0
NegativeDimensions ==
    Err("_sample_noisy_latent", "negative dimensions are not allowed")
\* mask.reshape(-1, 1, max_len) with max_len <= 0
MaskReshapeError == Err("_length_to_mask", "cannot reshape array")
\* noisy_latent * latent_mask with last dimensions that differ
BroadcastError ==
    Err("_sample_noisy_latent", "operands could not be broadcast together")
\* np.random.randn(bsz, latent_dim, latent_len) with latent_len 2^31 - 1
LatentMemoryError == Err("_sample_noisy_latent", "MemoryError")

\* a call that raises
LatentRaises(error) == [raised |-> error]

_sample_noisy_latent(duration, sample_rate, base_chunk_size, chunk_compress_factor, promotion) ==
    LET chunk_size == base_chunk_size * chunk_compress_factor
        Sampled(bsz, latent_len, latent_lengths, max_len) ==
            IF latent_len < 0 THEN LatentRaises(NegativeDimensions)
            ELSE IF max_len <= 0 THEN LatentRaises(MaskReshapeError)
            ELSE IF latent_len # max_len /\ latent_len # 1 /\ max_len # 1
            THEN LatentRaises(BroadcastError)
            ELSE [ raised |-> NoError,
                   bsz |-> bsz,
                   latent_len |-> latent_len,
                   latent_lengths |-> latent_lengths,
                   mask_len |-> max_len,
                   \* the last dimension of noisy_latent * latent_mask
                   xt_len |-> IF max_len = 1 THEN latent_len ELSE max_len ]
    IN The({ Sampled(Len(v[1]), v[2], v[3], MaxOf(v[3])) :
               v \in { <<d, LatentLen(d, sample_rate, chunk_size, promotion),
                          LatentLengths(WavLengths(d, sample_rate),
                                        base_chunk_size,
                                        chunk_compress_factor)>> :
                        d \in {duration} } })

\* _sample_noisy_latent on the infinite durations that dur_onnx / 0.0
\* gives: the conversion of inf to np.int32 is undefined in C, and gives
\* -2^31 (randn raises ValueError) or 2^31 - 1 (randn cannot allocate)
InfiniteLatentErrors == {NegativeDimensions, LatentMemoryError}

(***************************************************************************)
(* State.                                                                  *)
(***************************************************************************)
VARIABLES
    names_bound,        \* Style and TTSConfig are names of supertonic_client
    config_sample_rate, \* ae.sample_rate of the tts.json the engine reads
    engine,             \* the SupertonicTTS instance
    svc_initialized,    \* TTSService._initialized
    running,            \* the task that holds the event loop, 0 for none
    pc,                 \* per task: its position in the call it makes
    req,                \* per task: the arguments of the call
    loc,                \* per task: the local variables of the call
    outcome,            \* per task: what the call returned or raised
    fn,                 \* the pure function under study
    fn_args,            \* its arguments
    fn_out,             \* its result
    fn_done,            \* whether it has been applied
    fs,                 \* the file system the AssetManager works on
    _config_cache,      \* AssetManager._config_cache
    asset_log           \* the calls a caller made on the AssetManager itself

svc_vars == <<names_bound, config_sample_rate, engine, svc_initialized,
              running, pc, req, loc, outcome>>
fn_vars == <<fn, fn_args, fn_out, fn_done>>
asset_vars == <<fs, _config_cache, asset_log>>
vars == <<names_bound, config_sample_rate, engine, svc_initialized,
          running, pc, req, loc, outcome, fn, fn_args, fn_out, fn_done,
          fs, _config_cache, asset_log>>

NumTasks == 2
Tasks == 1..NumTasks

\* the load counters stop counting at LoadCap
LoadCap == 2

ENGINE_DEFAULT_SAMPLE_RATE == 24000
SILENCE_DEFAULT_SAMPLE_RATE == 24000
NUM_INFERENCE_STEPS == 5
SUMMARY_MIN_LENGTH == 50

ConfigSampleRates == {24000, 44100}

NoPath == ""

(***************************************************************************)
(* tts/supertonic_client.py: _initialize_pipeline.  The steps run in the   *)
(* order of InitSteps.  The coroutine awaits nothing, so it runs as one    *)
(* step of the event loop.  The first step is the call of the              *)
(* AssetManager: what it does is computed from the file system.  The       *)
(* module imports the names Style and TTSConfig only under TYPE_CHECKING,  *)
(* which is False when the program runs: TTSConfig.from_dict (line 92)     *)
(* raises NameError, before any graph is loaded, unless a caller has bound *)
(* the names in the module.  With the names bound, a graph whose file is   *)
(* missing raises when it is loaded, and the import of the dependencies    *)
(* and each load may raise for a reason of its own: stop names the first   *)
(* step that does, "none" when no step does.                               *)
(***************************************************************************)
\* typing.TYPE_CHECKING when the program runs
TYPE_CHECKING_set == TRUE

TYPE_CHECKING == FALSE

InitSteps ==
    << "ensure_onnx_assets", "load_config", "ensure_deps",
       "dp_ort", "text_enc_ort", "vector_est_ort", "vocoder_ort",
       "text_processor", "none" >>

Components ==
    {"dp_ort", "text_enc_ort", "vector_est_ort", "vocoder_ort",
     "text_processor"}

InitStops == {InitSteps[i] : i \in 1..Len(InitSteps)}

\* the steps of the client that may raise for a reason of their own
ClientStops == InitStops \ {"ensure_onnx_assets", "load_config"}

StepRank(step) == CHOOSE i \in 1..Len(InitSteps) : InitSteps[i] = step

CountLoad(n) == IF n < LoadCap THEN n + 1 ELSE n

InitError(stop) == Err("_initialize_pipeline", stop)

\* TTSConfig.from_dict(cfgs) where the name TTSConfig is not bound
TTSConfigUnbound ==
    Err("_initialize_pipeline", "name 'TTSConfig' is not defined")

\* the file each component is loaded from
ComponentFile(c) ==
    CASE c = "dp_ort" -> <<"duration_predictor", "onnx">>
      [] c = "text_enc_ort" -> <<"text_encoder", "onnx">>
      [] c = "vector_est_ort" -> <<"vector_estimator", "onnx">>
      [] c = "vocoder_ort" -> <<"vocoder", "onnx">>
      [] c = "text_processor" -> <<"unicode_indexer", "json">>

(***************************************************************************)
(* tts/supertonic_client.py: speak.  The vocoder is an opaque function:    *)
(* its output for one inference is any member of VocoderOutputs.           *)
(***************************************************************************)
VocoderOutputs == { <<SampleDen>>, <<-6, 1>> }

InvalidVoiceKey == Err("ensure_voice_style", "Invalid voice key")
NoValidSegments == Err("speak", "No valid language segments found in text")
EngineError == Err("speak", "inference failed")
NoSegmentsFound ==
    Err("synthesize_mixed", "No valid language segments found in text")
WriteError == Err("write_audio_file", "write failed")
AssertionError ==
    Err("_infer", "Number of texts must match number of style vectors")
\* Style.from_dict(style_data) where the name Style is not bound
StyleUnbound == Err("speak", "name 'Style' is not defined")
VoiceKeyError == Err("speak", "KeyError")
StyleNotFound == Err("speak", "Voice style not found")

\* AssetManager.ensure_voice_style, the check of the key
ensure_voice_style_raises(voice_key) == voice_key \notin VOICES

(***************************************************************************)
(* tts/asset_manager.py: AssetManager.  A path is <<directory, stem,       *)
(* extension>>; the file system is the set of directories that exist and   *)
(* the content of every file that exists.  Float values are numbered: the  *)
(* i-th float of a raw voice file is i.  The downloads of huggingface_hub  *)
(* either raise or place the files of the repository; where                *)
(* hf_hub_download places 'voices/<name>' under local_dir, directly or in  *)
(* the subdirectory voices, is left open.                                  *)
(***************************************************************************)
MaxAssetCalls == 2      \* calls made on one AssetManager

CACHE_ONNX == "cache_dir/onnx"
CUSTOM_ONNX == "custom/onnx"
VOICE_STYLES == "cache_dir/voice_styles"
VOICES_RAW == "cache_dir/voices_raw"
VOICES_RAW_NESTED == "cache_dir/voices_raw/voices"

NoDir == "None"
NoConfig == [kind |-> "none"]

required_files ==
    { <<"tts", "json">>, <<"duration_predictor", "onnx">>,
      <<"text_encoder", "onnx">>, <<"vector_estimator", "onnx">>,
      <<"vocoder", "onnx">>, <<"unicode_indexer", "json">> }

\* directory / file name
Join(dir, name) == <<dir, name[1], name[2]>>

\* path.exists() for a file
Exists(files, path) == path \in DOMAIN files

\* VOICES[voice_key]
VoiceFilename(voice_key) == <<voice_key, "bin">>

ReplaceBinByJson_unchanged(name) == name

\* voice_filename.replace('.bin', '.json')
ReplaceBinByJson(name) == <<name[1], IF name[2] = "bin" THEN "json" ELSE name[2]>>

\* the files after writing the files new
WriteFiles(files, new) ==
    [p \in DOMAIN files \cup DOMAIN new |->
        IF p \in DOMAIN new THEN new[p] ELSE files[p]]

TTSConfig(latent_dim, base_chunk_size, chunk_compress_factor) ==
    [kind |-> "config", ttl_latent_dim |-> latent_dim,
     ae_base_chunk_size |-> base_chunk_size,
     ttl_chunk_compress_factor |-> chunk_compress_factor]

InvalidJson == [kind |-> "invalid"]
Graph == [kind |-> "graph"]
Indexer == [kind |-> "indexer"]
Floats(n) == [kind |-> "floats", data |-> [i \in 1..n |-> i]]

\* the tts.json of the repository
RepositoryConfig == TTSConfig(2, 2, 1)

\* what snapshot_download places in local_dir
RepositoryFiles(onnx_dir) ==
    [p \in {Join(onnx_dir, f) : f \in required_files} |->
        IF p[2] = "tts" THEN RepositoryConfig
        ELSE IF p[3] = "onnx" THEN Graph ELSE Indexer]

\* what snapshot_download places when it returns without a required file,
\* as it does when the repository lacks the file or keeps it in a
\* subdirectory
IncompleteRepositoryFiles(onnx_dir) ==
    [p \in DOMAIN RepositoryFiles(onnx_dir)
             \ {Join(onnx_dir, <<"vocoder", "onnx">>)} |->
        RepositoryFiles(onnx_dir)[p]]

DownloadError(origin) == Err(origin, "download failed")
FileNotFoundError(origin) == Err(origin, "No such file or directory")
AssetsNotInitialized ==
    Err("get_config",
        "ONNX assets not initialized. Call ensure_onnx_assets() first.")
JSONDecodeError(origin) == Err(origin, "Expecting value")

\* with open(cfg_path) as f: json.load(f); TTSConfig.from_dict(cfgs)
LoadConfig(files, cfg_path, origin) ==
    IF ~Exists(files, cfg_path)
    THEN [raised |-> FileNotFoundError(origin), config |-> NoConfig]
    ELSE IF files[cfg_path].kind # "config"
    THEN [raised |-> JSONDecodeError(origin), config |-> NoConfig]
    ELSE [raised |-> NoError, config |-> files[cfg_path]]

all_exist_config_only(files, onnx_dir) ==
    Exists(files, Join(onnx_dir, <<"tts", "json">>))

\* all((onnx_dir / f).exists() for f in required_files)
all_exist(files, onnx_dir) ==
    \A f \in required_files : Exists(files, Join(onnx_dir, f))

\* how snapshot_download ends: it raises, it places every required file,
\* or it returns with a required file not placed
SnapshotOutcomes == {"raises", "downloaded", "incomplete"}

\* the files a returning snapshot_download places in local_dir
SnapshotFiles(onnx_dir, download) ==
    IF download = "downloaded" THEN RepositoryFiles(onnx_dir)
    ELSE IncompleteRepositoryFiles(onnx_dir)

\* ensure_onnx_assets(onnx_dir) on the file system disk with the cache
\* cache, when snapshot_download, if called, ends as download says
ensure_onnx_assets(disk, cache, onnx_dir_arg, download) ==
    LET onnx_dir == IF onnx_dir_arg = NoDir THEN CACHE_ONNX ELSE onnx_dir_arg
        dirs == disk.dirs \cup {onnx_dir}
        fetch == ~all_exist(disk.files, onnx_dir)
        events == IF fetch THEN <<"snapshot_download">> ELSE <<>>
    IN IF fetch /\ download = "raises"
       THEN [raised |-> DownloadError("ensure_onnx_assets"),
             disk |-> [dirs |-> dirs, files |-> disk.files],
             cache |-> cache, events |-> events, path |-> onnx_dir]
       ELSE LET files == IF fetch
                         THEN WriteFiles(disk.files,
                                         SnapshotFiles(onnx_dir, download))
                         ELSE disk.files
                loaded == LoadConfig(files, Join(onnx_dir, <<"tts", "json">>),
                                     "ensure_onnx_assets")
            IN [raised |-> IF cache = NoConfig THEN loaded.raised ELSE NoError,
                disk |-> [dirs |-> dirs, files |-> files],
                cache |-> IF cache = NoConfig THEN loaded.config ELSE cache,
                events |-> events, path |-> onnx_dir]

\* get_config()
get_config(disk, cache) ==
    IF cache # NoConfig
    THEN [raised |-> NoError, config |-> cache]
    ELSE IF CACHE_ONNX \notin disk.dirs
    THEN [raised |-> AssetsNotInitialized, config |-> NoConfig]
    ELSE LoadConfig(disk.files, Join(CACHE_ONNX, <<"tts", "json">>),
                    "get_config")

ExpectedSize_ttl_only(latent_dim, base_chunk_size) ==
    latent_dim * base_chunk_size

\* expected_size = ttl_size + dp_size
ExpectedSize(latent_dim, base_chunk_size) ==
    latent_dim * base_chunk_size + 1 * base_chunk_size

\* the ValueError of _convert_voice_bin_to_json, with the numbers its
\* message holds
SizeMismatch(bin_path, actual, expected, latent_dim, base_chunk_size) ==
    [origin |-> "_convert_voice_bin_to_json",
     message |-> "Voice file has unexpected size",
     bin_path |-> bin_path, actual |-> actual, expected |-> expected,
     latent_dim |-> latent_dim, base_chunk_size |-> base_chunk_size]

\* _convert_voice_bin_to_json(bin_path, json_path, voice_key)
_convert_voice_bin_to_json(disk, cache, bin_path, json_path, voice_key) ==
    LET got == get_config(disk, cache)
    IN IF got.raised # NoError
       THEN [raised |-> got.raised, disk |-> disk, cache |-> cache]
       ELSE IF ~Exists(disk.files, bin_path)
       THEN [raised |-> FileNotFoundError("_convert_voice_bin_to_json"),
             disk |-> disk, cache |-> got.config]
       ELSE
       LET latent_dim == got.config.ttl_latent_dim
           base_chunk_size == got.config.ae_base_chunk_size
           data == disk.files[bin_path].data
           ttl_size == latent_dim * base_chunk_size
           expected_size == ExpectedSize(latent_dim, base_chunk_size)
       IN IF Len(data) # expected_size
          THEN [raised |-> SizeMismatch(bin_path, Len(data), expected_size,
                                        latent_dim, base_chunk_size),
                disk |-> disk, cache |-> got.config]
          ELSE LET voice_json ==
                       [kind |-> "style",
                        style_ttl |->
                            [dims |-> <<1, latent_dim, base_chunk_size>>,
                             data |-> SubSeq(data, 1, ttl_size)],
                        style_dp |->
                            [dims |-> <<1, 1, base_chunk_size>>,
                             data |-> SubSeq(data, ttl_size + 1, Len(data))]]
               IN IF json_path[1] \notin disk.dirs
                  THEN [raised |->
                            FileNotFoundError("_convert_voice_bin_to_json"),
                        disk |-> disk, cache |-> got.config]
                  ELSE [raised |-> NoError,
                        disk |-> [dirs |-> disk.dirs,
                                  files |-> WriteFiles(disk.files,
                                      [p \in {json_path} |-> voice_json])],
                        cache |-> got.config]

\* how hf_hub_download ends: it raises, or it places the file, of n floats,
\* in local_dir or in its subdirectory voices
DownloadLengths == {6}

HubOutcomes ==
    {[kind |-> "raises", floats |-> 0]}
    \cup { [kind |-> k, floats |-> n] :
             k \in {"in local_dir", "in local_dir/voices"},
             n \in DownloadLengths }

\* styles_dir as ensure_voice_style and get_or_download_all_voices resolve it
StylesDir(styles_dir_arg) ==
    IF styles_dir_arg = NoDir THEN VOICE_STYLES ELSE styles_dir_arg

\* ensure_voice_style(voice_key, styles_dir), when hf_hub_download, if
\* called, ends as download says
ensure_voice_style(disk, cache, voice_key, styles_dir_arg, download) ==
    IF ensure_voice_style_raises(voice_key)
    THEN [raised |-> InvalidVoiceKey, disk |-> disk, cache |-> cache,
          events |-> <<>>, path |-> NoPath]
    ELSE
    LET styles_dir == StylesDir(styles_dir_arg)
        made == [dirs |-> disk.dirs \cup {styles_dir}, files |-> disk.files]
        voice_filename == VoiceFilename(voice_key)
        voice_json == ReplaceBinByJson(voice_filename)
        voice_path == Join(styles_dir, voice_json)
        voice_bin_path == Join(VOICES_RAW, voice_filename)
    IN IF Exists(made.files, voice_path)
       THEN [raised |-> NoError, disk |-> made, cache |-> cache,
             events |-> <<>>, path |-> voice_path]
       ELSE
       LET fetch == ~Exists(made.files, voice_bin_path)
           fetched == IF fetch THEN <<"hf_hub_download">> ELSE <<>>
       IN IF fetch /\ download.kind = "raises"
          THEN [raised |-> DownloadError("ensure_voice_style"),
                disk |-> made, cache |-> cache,
                events |-> fetched, path |-> NoPath]
          ELSE
          LET target == IF download.kind = "in local_dir"
                        THEN VOICES_RAW ELSE VOICES_RAW_NESTED
              after == IF fetch
                       THEN [dirs |-> made.dirs \cup {VOICES_RAW, target},
                             files |-> WriteFiles(made.files,
                                 [p \in {Join(target, voice_filename)} |->
                                     Floats(download.floats)])]
                       ELSE made
              converted == _convert_voice_bin_to_json(
                               after, cache, voice_bin_path, voice_path,
                               voice_key)
          IN [raised |-> converted.raised, disk |-> converted.disk,
              cache |-> converted.cache,
              events |-> Append(fetched, "convert"),
              path |-> IF converted.raised = NoError
                       THEN voice_path ELSE NoPath]

\* one call of a method of the AssetManager, as a log keeps it: the file
\* system and the cached configuration when it began, the downloads and
\* conversions it made, what it raised, the file system when it ended;
\* top tells a call of the caller from one made by another method
AssetCall(op, arg, dir, disk, cache, result, top) ==
    [op |-> op, arg |-> arg, dir |-> dir, before |-> disk, cached |-> cache,
     events |-> result.events, raised |-> result.raised,
     after |-> result.disk, top |-> top]

\* VOICES.keys(), in the order of the dictionary
VoiceKeys == <<"F1", "F2", "F3", "F4", "F5", "M1", "M2", "M3", "M4", "M5">>

\* the loop of get_or_download_all_voices from the i-th key on: each call
\* of ensure_voice_style runs on what the calls before it left, and what it
\* raises is printed and dropped.  calls holds the calls made
RECURSIVE AllVoicesFrom(_, _, _, _, _, _)
AllVoicesFrom(disk, cache, styles_dir, downloads, i, calls) ==
    IF i > Len(VoiceKeys)
    THEN [disk |-> disk, cache |-> cache, calls |-> calls]
    ELSE LET voice_key == VoiceKeys[i]
             r == ensure_voice_style(disk, cache, voice_key, styles_dir,
                                     downloads[voice_key])
         IN AllVoicesFrom(r.disk, r.cache, styles_dir, downloads, i + 1,
                          Append(calls,
                                 AssetCall("ensure_voice_style", voice_key,
                                           styles_dir, disk, cache, r,
                                           FALSE)))

\* get_or_download_all_voices(styles_dir), when the hf_hub_download for a
\* key, if called, ends as downloads says
get_or_download_all_voices(disk, cache, styles_dir_arg, downloads) ==
    LET styles_dir == StylesDir(styles_dir_arg)
        made == [dirs |-> disk.dirs \cup {styles_dir}, files |-> disk.files]
        done == AllVoicesFrom(made, cache, styles_dir, downloads, 1, <<>>)
    IN [raised |-> NoError, disk |-> done.disk, cache |-> done.cache,
        events |-> <<>>, path |-> styles_dir, calls |-> done.calls]

(***************************************************************************)
(* tts/types.py: Style.from_dict, on the content of a converted voice      *)
(* file.  An array is its shape and its values.                            *)
(***************************************************************************)
\* np.array(data).flatten().reshape(rows, columns)
Reshape2(data, rows, columns) == [shape |-> <<rows, columns>>, data |-> data]

Style_from_dict(data) ==
    LET ttl_dims == data.style_ttl.dims
        dp_dims == data.style_dp.dims
    IN [ttl |-> Reshape2(data.style_ttl.data, ttl_dims[2], ttl_dims[3]),
        dp |-> Reshape2(data.style_dp.data, dp_dims[2], dp_dims[3])]

\* the text_list of one inference run of speak: [text]
TextList(text) == <<text>>

\* assert len(text_list) == style.ttl.shape[0]
BatchAssertion(text_list, style) == Len(text_list) = style.ttl.shape[1]

(***************************************************************************)
(* tts/supertonic_client.py: _initialize_pipeline and speak, on the file   *)
(* system disk with the AssetManager's cache.                              *)
(***************************************************************************)
\* SupertonicTTS(default_voice, onnx_dir, voice_styles_dir)
SupertonicTTS(onnx_dir, voice_styles_dir) ==
    [ pipeline_initialized |-> FALSE,
      sample_rate |-> ENGINE_DEFAULT_SAMPLE_RATE,
      base_chunk_size |-> 50,
      chunk_compress_factor |-> 2,
      ldim |-> 128,
      loaded |-> [c \in Components |-> 0],
      onnx_dir |-> onnx_dir,
      voice_styles_dir |-> voice_styles_dir ]

\* the first step of the client that raises on the files of onnx_path: a
\* component whose file is missing, or stop if it comes before
FirstRaising(files, onnx_path, stop) ==
    LET raising == {stop} \cup
                   { c \in Components :
                       ~Exists(files, Join(onnx_path, ComponentFile(c))) }
    IN CHOOSE step \in raising :
           \A other \in raising : StepRank(step) <= StepRank(other)

\* the engine after _initialize_pipeline, the error it raised and what it
\* left on disk and in the cache, when snapshot_download, if called, ends
\* as download says and stop is the step that raises for a reason of its
\* own
_initialize_pipeline(eng, disk, cache, download, stop) ==
    IF eng.pipeline_initialized
    THEN [engine |-> eng, raised |-> NoError, disk |-> disk, cache |-> cache]
    ELSE LET Loaded(rank) ==
                 [c \in Components |->
                     IF StepRank(c) < rank THEN CountLoad(eng.loaded[c])
                     ELSE eng.loaded[c]]
             Initialized(assets, cfgs, first) ==
                 IF assets.raised # NoError
                 THEN [engine |-> eng, raised |-> assets.raised,
                       disk |-> assets.disk, cache |-> assets.cache]
                 ELSE IF cfgs.raised # NoError
                 THEN [engine |-> eng, raised |-> cfgs.raised,
                       disk |-> assets.disk, cache |-> assets.cache]
                 ELSE IF ~names_bound
                 THEN [engine |-> eng, raised |-> TTSConfigUnbound,
                       disk |-> assets.disk, cache |-> assets.cache]
                 ELSE [engine |->
                           [eng EXCEPT
                               !.pipeline_initialized = (first = "none"),
                               !.sample_rate = config_sample_rate,
                               !.base_chunk_size =
                                   cfgs.config.ae_base_chunk_size,
                               !.chunk_compress_factor =
                                   cfgs.config.ttl_chunk_compress_factor,
                               !.ldim = cfgs.config.ttl_latent_dim,
                               !.loaded = Loaded(StepRank(first))],
                       raised |-> IF first = "none" THEN NoError
                                  ELSE InitError(first),
                       disk |-> assets.disk, cache |-> assets.cache]
         IN The({ Initialized(assets,
                              LoadConfig(assets.disk.files,
                                         Join(assets.path, <<"tts", "json">>),
                                         "_initialize_pipeline"),
                              FirstRaising(assets.disk.files, assets.path,
                                           stop)) :
                    assets \in {ensure_onnx_assets(disk, cache, eng.onnx_dir,
                                                   download)} })

\* speak, lines 248-255: the path of the voice style, in the directory the
\* engine was given or through the AssetManager
VoiceStylePath(eng, disk, cache, voice_key, download) ==
    IF eng.voice_styles_dir # NoDir
    THEN IF voice_key \notin VOICES
         THEN [raised |-> VoiceKeyError, disk |-> disk, cache |-> cache,
               path |-> NoPath]
         ELSE LET voice_path ==
                      Join(eng.voice_styles_dir,
                           ReplaceBinByJson(VoiceFilename(voice_key)))
              IN IF ~Exists(disk.files, voice_path)
                 THEN [raised |-> StyleNotFound, disk |-> disk,
                       cache |-> cache, path |-> NoPath]
                 ELSE [raised |-> NoError, disk |-> disk, cache |-> cache,
                       path |-> voice_path]
    ELSE LET r == ensure_voice_style(disk, cache, voice_key, NoDir,
                                     download)
         IN [raised |-> r.raised, disk |-> r.disk, cache |-> r.cache,
             path |-> r.path]

\* dur_onnx / speed for a speed other than 0, in hundredths: a float32
\* array
DivideBySpeed(duration, speed) ==
    [i \in 1..Len(duration) |-> DivFloat32(duration[i], SpeedFloat32(speed))]

\* what the duration predictor may give for one text
PredictedDurations == {Seconds(2), Seconds(4)}

\* how one run of _infer([text], [lang], style, steps, speed) in speak may
\* end: the assertion on the rows of the style (line 184); a graph that
\* raises in its run (lines 191, 197, 209, 223); _sample_noisy_latent
\* (line 203) raising on the durations divided by speed; NoError when the
\* run returns
InferOutcomes(eng, style, text, speed) ==
    IF ~BatchAssertion(TextList(text), style)
    THEN {AssertionError}
    ELSE {EngineError}
         \cup (IF speed = 0 THEN InfiniteLatentErrors
               ELSE { _sample_noisy_latent(DivideBySpeed(<<d>>, speed),
                                           eng.sample_rate,
                                           eng.base_chunk_size,
                                           eng.chunk_compress_factor,
                                           promotion).raised :
                        d \in PredictedDurations,
                        promotion \in NumPyPromotions })

\* speak, lines 263-295, with the style loaded: the segments, one run of
\* _infer per segment, the WAV bytes.  The loop ends at the first run that
\* raises.  infers holds the runs made, a failing one included
SpeakSegments(eng, style, text, voice_key, speed, steps) ==
    LET segments == parse_language_segments(text)
        k == Len(segments)
        infers == [i \in 1..k |->
                      [text |-> text, lang |-> segments[i][1],
                       seg_text |-> segments[i][2],
                       voice_key |-> voice_key,
                       speed |-> speed, steps |-> steps]]
        ends == InferOutcomes(eng, style, text, speed)
        returns == NoError \in ends
    IN IF k = 0
       THEN {[raised |-> NoValidSegments, wav |-> EmptyBytes, infers |-> <<>>]}
       ELSE {[raised |-> error, wav |-> EmptyBytes,
              infers |-> SubSeq(infers, 1, j)] :
                error \in ends \ {NoError},
                j \in 1..(IF returns THEN k ELSE 1)}
            \cup
            (IF ~returns THEN {}
             ELSE {[raised |-> NoError,
                    wav |-> IF k > 1
                            THEN concatenate_wav_buffers(
                                     [i \in 1..k |->
                                         _array_to_wav(outs[i],
                                                       eng.sample_rate)])
                            ELSE _array_to_wav(outs[1], eng.sample_rate),
                    infers |-> infers] : outs \in [1..k -> VocoderOutputs]})

\* what a call of speak leaves: the error raised or the WAV bytes, the
\* runs of _infer made, the engine, the file system and the cache
SpeakResult(r, eng, disk, cache) ==
    [raised |-> r.raised, wav |-> r.wav, infers |-> r.infers,
     engine |-> eng, disk |-> disk, cache |-> cache]

SpeakFails(err, eng, disk, cache) ==
    SpeakResult([raised |-> err, wav |-> EmptyBytes, infers |-> <<>>],
                eng, disk, cache)

\* speak from line 246 on, the pipeline initialized
SpeakInitialized(eng, disk, cache, text, voice_key, speed, steps) ==
    UNION {
        IF v.raised # NoError
        THEN {SpeakFails(v.raised, eng, v.disk, v.cache)}
        ELSE IF v.disk.files[v.path].kind # "style"
        THEN {SpeakFails(JSONDecodeError("speak"), eng, v.disk, v.cache)}
        ELSE IF ~names_bound
        THEN {SpeakFails(StyleUnbound, eng, v.disk, v.cache)}
        ELSE { SpeakResult(r, eng, v.disk, v.cache) :
                 r \in SpeakSegments(eng,
                                     Style_from_dict(v.disk.files[v.path]),
                                     text, voice_key, speed, steps) }
        : v \in { VoiceStylePath(eng, disk, cache, voice_key, download) :
                    download \in HubOutcomes } }

\* the outcomes of speak(text, voice_key, {speed, num_inference_steps})
speak(eng, disk, cache, text, voice_key, speed, steps) ==
    IF eng.pipeline_initialized
    THEN SpeakInitialized(eng, disk, cache, text, voice_key, speed, steps)
    ELSE UNION {
             IF i.raised # NoError
             THEN {SpeakFails(i.raised, i.engine, i.disk, i.cache)}
             ELSE SpeakInitialized(i.engine, i.disk, i.cache, text,
                                   voice_key, speed, steps)
             : i \in { _initialize_pipeline(eng, disk, cache, download, stop) :
                         download \in SnapshotOutcomes,
                         stop \in ClientStops } }

(***************************************************************************)
(* tts/service.py: TTSService.synthesize and synthesize_mixed.  A call     *)
(* runs on the event loop until it awaits the file write; its steps are    *)
(* ensure_initialized, prepare, speak (once per segment), assemble, write. *)
(***************************************************************************)
NoLanguage == <<>>
NoRate == <<>>

NoLocals ==
    [ voice_key |-> "", speed |-> 0, detected_lang |-> NoLanguage,
      segments |-> <<>>, idx |-> 0,
      audio_buffers |-> <<>>,  \* the list audio_buffers
      kinds |-> <<>>,          \* what each member of audio_buffers is
      concatenated |-> FALSE,  \* concatenate_wav_buffers was called
      file_buffer |-> EmptyBytes,
      speak_log |-> <<>>,      \* the calls of speak: processed text, voice
      infer_log |-> <<>>,      \* the inference runs speak made
      writes |-> <<>>,         \* the buffers given to write_audio_file
      detector_calls |-> <<>>, \* the calls of language_detector: result
      inner_error |-> NoError  \* the error raised inside the try block
    ]

NoOutcome ==
    [ status |-> "none", error |-> NoError, saved_path |-> NoPath,
      file_buffer |-> EmptyBytes, detected_language |-> NoLanguage ]

Raised(err) == [NoOutcome EXCEPT !.status = "raised", !.error = err]

\* a handler that raises a new error carrying the message of the caught one
Reraise_wrapped(error) == Err("TTSService", error.message)

\* except Exception as error: raise error
Reraise(error) == error

Returned(saved_path, file_buffer, detected_language) ==
    [ status |-> "returned", error |-> NoError, saved_path |-> saved_path,
      file_buffer |-> file_buffer, detected_language |-> detected_language ]

\* segments.index(segment): 0-based position of the first equal member
SegmentIndex(segments, segment) ==
    (CHOOSE i \in 1..Len(segments) :
        /\ segments[i] = segment
        /\ \A j \in 1..(i - 1) : segments[j] # segment) - 1

\* what the pluggable language detector may return for a text
DE == <<"d", "e">>
DetectorResults(text) ==
    { [language |-> l, summary |-> text] : l \in {EN, ES, DE} }
        \cup { [summary |-> text] }

\* dict.get(key, default)
DictGet(d, key, default) == IF key \in DOMAIN d THEN d[key] ELSE default

\* a call of synthesize or synthesize_mixed and its arguments
Request(op, text, voice, rate, language, silence_num, write_to_file) ==
    [ op |-> op, text |-> text, voice |-> voice, rate |-> rate,
      language |-> language, silence_num |-> silence_num,
      write_to_file |-> write_to_file ]

NoRequest == Request("none", <<>>, "", NoRate, NoLanguage, 0, FALSE)

StartCall(t, r) ==
    /\ running = 0
    /\ pc[t] = "idle"
    /\ running' = t
    /\ pc' = [pc EXCEPT ![t] = "ensure_initialized"]
    /\ req' = [req EXCEPT ![t] = r]
    /\ loc' = [loc EXCEPT ![t] = NoLocals]
    /\ outcome' = [outcome EXCEPT ![t] = NoOutcome]
    /\ UNCHANGED <<names_bound, config_sample_rate, engine, svc_initialized,
                   fn_vars, asset_vars>>

\* the call of task t ends by raising err
Raises(t, err) ==
    /\ pc' = [pc EXCEPT ![t] = "done"]
    /\ outcome' = [outcome EXCEPT ![t] = Raised(Reraise(err))]
    /\ running' = 0

\* the call of task t ends by returning
Returns(t, saved_path, file_buffer, detected_language) ==
    /\ pc' = [pc EXCEPT ![t] = "done"]
    /\ outcome' = [outcome EXCEPT ![t] =
                      Returned(saved_path, file_buffer, detected_language)]
    /\ running' = 0

\* TTSService._ensure_initialized
EnsureInitialized(t) ==
    /\ running = t
    /\ pc[t] = "ensure_initialized"
    /\ IF svc_initialized
       THEN /\ pc' = [pc EXCEPT ![t] = "prepare"]
            /\ UNCHANGED <<engine, svc_initialized, running, loc, outcome>>
            /\ UNCHANGED <<fs, _config_cache>>
       ELSE \E download \in SnapshotOutcomes, stop \in ClientStops :
               \E r \in {_initialize_pipeline(engine, fs, _config_cache,
                                              download, stop)} :
                  /\ engine' = r.engine
                  /\ fs' = r.disk
                  /\ _config_cache' = r.cache
                  /\ IF r.raised = NoError
                     THEN /\ svc_initialized' = TRUE
                          /\ pc' = [pc EXCEPT ![t] = "prepare"]
                          /\ UNCHANGED <<running, loc, outcome>>
                     ELSE /\ loc' = [loc EXCEPT ![t].inner_error = r.raised]
                          /\ Raises(t, r.raised)
                          /\ UNCHANGED svc_initialized
    /\ UNCHANGED <<names_bound, config_sample_rate, req, fn_vars, asset_log>>

\* a direct call of SupertonicTTS._initialize_pipeline
DirectInitialize ==
    /\ running = 0
    /\ \E download \in SnapshotOutcomes, stop \in ClientStops :
           \E r \in {_initialize_pipeline(engine, fs, _config_cache,
                                          download, stop)} :
              /\ engine' = r.engine
              /\ fs' = r.disk
              /\ _config_cache' = r.cache
    /\ UNCHANGED <<names_bound, config_sample_rate, svc_initialized, running,
                   pc, req, loc, outcome, fn_vars, asset_log>>

\* language detection, validate_voice, parse_rate_to_speed and, in
\* synthesize_mixed, parse_language_segments
Prepare(t) ==
    /\ running = t
    /\ pc[t] = "prepare"
    /\ LET r == req[t]
           voice_key == validate_voice(r.voice)
           speed == parse_rate_to_speed(r.rate)
       IN IF r.op = "synthesize"
          THEN IF r.language # NoLanguage
               THEN /\ loc' = [loc EXCEPT
                                  ![t].voice_key = voice_key,
                                  ![t].speed = speed,
                                  ![t].detected_lang = r.language,
                                  ![t].segments =
                                      << <<r.language, r.text>> >>,
                                  ![t].idx = 1]
                    /\ pc' = [pc EXCEPT ![t] = "speak"]
                    /\ UNCHANGED <<running, outcome>>
               ELSE \E detection_result \in DetectorResults(r.text) :
                       LET detected ==
                               DictGet(detection_result, "language", ES)
                           detected_lang == detect_language(detected)
                           text_to_speak ==
                               IF Len(r.text) < SUMMARY_MIN_LENGTH
                               THEN r.text
                               ELSE DictGet(detection_result, "summary",
                                            r.text)
                       IN /\ loc' = [loc EXCEPT
                                        ![t].voice_key = voice_key,
                                        ![t].speed = speed,
                                        ![t].detected_lang = detected_lang,
                                        ![t].segments =
                                            << <<detected_lang,
                                                 text_to_speak>> >>,
                                        ![t].detector_calls =
                                            Append(@, detection_result),
                                        ![t].idx = 1]
                          /\ pc' = [pc EXCEPT ![t] = "speak"]
                          /\ UNCHANGED <<running, outcome>>
          ELSE LET segments == parse_language_segments(r.text)
               IN IF segments = <<>>
                  THEN /\ loc' = [loc EXCEPT
                                     ![t].voice_key = voice_key,
                                     ![t].speed = speed,
                                     ![t].inner_error = NoSegmentsFound]
                       /\ Raises(t, NoSegmentsFound)
                  ELSE /\ loc' = [loc EXCEPT
                                     ![t].voice_key = voice_key,
                                     ![t].speed = speed,
                                     ![t].segments = segments,
                                     ![t].idx = 1]
                       /\ pc' = [pc EXCEPT ![t] = "speak"]
                       /\ UNCHANGED <<running, outcome>>
    /\ UNCHANGED <<names_bound, config_sample_rate, engine, svc_initialized,
                   req, fn_vars, asset_vars>>

\* whether the loop body appends a silence buffer after this segment
SilenceFollows(segments, segment) ==
    SegmentIndex(segments, segment) < Len(segments) - 1

\* one pass of the loop over the segments (synthesize_mixed), or the one
\* call of speak (synthesize)
SpeakSegment(t) ==
    /\ running = t
    /\ pc[t] = "speak"
    /\ LET r == req[t]
           l == loc[t]
           segment == l.segments[l.idx]
           lang == segment[1]
           text == segment[2]
           processed_text == preprocess_text(text, lang)
           call == [text |-> processed_text, voice_key |-> l.voice_key,
                    speed |-> l.speed, steps |-> NUM_INFERENCE_STEPS]
       IN \E res \in speak(engine, fs, _config_cache, processed_text,
                           l.voice_key, l.speed, NUM_INFERENCE_STEPS) :
             /\ engine' = res.engine
             /\ fs' = res.disk
             /\ _config_cache' = res.cache
             /\ IF res.raised # NoError
                THEN /\ loc' = [loc EXCEPT
                                   ![t].speak_log = Append(@, call),
                                   ![t].infer_log = @ \o res.infers,
                                   ![t].inner_error = res.raised]
                     /\ Raises(t, res.raised)
                ELSE LET silence ==
                             r.op = "synthesize_mixed"
                                 /\ SilenceFollows(l.segments, segment)
                         silence_buffer ==
                             create_silence_buffer(r.silence_num,
                                                   SILENCE_DEFAULT_SAMPLE_RATE)
                     IN /\ loc' = [loc EXCEPT
                                      ![t].speak_log = Append(@, call),
                                      ![t].infer_log = @ \o res.infers,
                                      ![t].audio_buffers =
                                          Append(@, res.wav)
                                              \o (IF silence
                                                  THEN <<silence_buffer>>
                                                  ELSE <<>>),
                                      ![t].kinds =
                                          Append(@, <<"segment", l.idx>>)
                                              \o (IF silence
                                                  THEN << <<"silence", l.idx>> >>
                                                  ELSE <<>>),
                                      ![t].idx = l.idx + 1]
                        /\ pc' = [pc EXCEPT ![t] =
                                     IF l.idx = Len(l.segments)
                                     THEN "assemble" ELSE "speak"]
                        /\ UNCHANGED <<running, outcome>>
    /\ UNCHANGED <<names_bound, config_sample_rate, svc_initialized, req,
                   fn_vars, asset_log>>

\* audio.to_wav() in synthesize, concatenate_wav_buffers(audio_buffers) in
\* synthesize_mixed; then the call returns, or awaits write_audio_file
Assemble(t) ==
    /\ running = t
    /\ pc[t] = "assemble"
    /\ LET r == req[t]
           l == loc[t]
           file_buffer ==
               IF r.op = "synthesize" THEN l.audio_buffers[1]
               ELSE concatenate_wav_buffers(l.audio_buffers)
       IN /\ loc' = [loc EXCEPT
                        ![t].file_buffer = file_buffer,
                        ![t].concatenated = (r.op = "synthesize_mixed")]
          /\ IF r.write_to_file
             THEN /\ pc' = [pc EXCEPT ![t] = "write"]
                  /\ running' = 0
                  /\ UNCHANGED outcome
             ELSE Returns(t, NoPath, file_buffer, l.detected_lang)
    /\ UNCHANGED <<names_bound, config_sample_rate, engine, svc_initialized,
                   req, fn_vars, asset_vars>>

\* tts/file_handler.py: write_audio_file returns the path or raises
WriteFile(t) ==
    /\ running = 0
    /\ pc[t] = "write"
    /\ LET l == loc[t]
       IN \E ok \in BOOLEAN :
             /\ loc' = [loc EXCEPT
                           ![t].writes = Append(@, l.file_buffer),
                           ![t].inner_error =
                               IF ok THEN NoError ELSE WriteError]
             /\ IF ok
                THEN Returns(t, "output.wav", l.file_buffer, l.detected_lang)
                ELSE Raises(t, WriteError)
    /\ UNCHANGED <<names_bound, config_sample_rate, engine, svc_initialized,
                   req, fn_vars, asset_vars>>

\* the caller takes the outcome; the task may call again
Finish(t) ==
    /\ pc[t] = "done"
    /\ pc' = [pc EXCEPT ![t] = "idle"]
    /\ req' = [req EXCEPT ![t] = NoRequest]
    /\ loc' = [loc EXCEPT ![t] = NoLocals]
    /\ outcome' = [outcome EXCEPT ![t] = NoOutcome]
    /\ UNCHANGED <<names_bound, config_sample_rate, engine, svc_initialized,
                   running,
                   fn_vars, asset_vars>>

(***************************************************************************)
(* The calls made.                                                         *)
(***************************************************************************)
MaxSegments == 2

SeqsUpTo(S, n) == UNION { [1..k -> S] : k \in 0..n }

Hi == <<"H", "i">>
Yo == <<"Y", "o">>
Tagged(lang, body) == LangOpen(lang) \o body \o LangClose(lang)

TaggedPieces == { Tagged(EN, Hi), Tagged(ES, Yo) }

MixedTexts ==
    { JoinSpace(pieces) : pieces \in SeqsUpTo(TaggedPieces, MaxSegments) }
        \cup {Hi}

SynthesizeTexts == { Hi, Tagged(EN, Hi) }

VoiceInputs == {"M2", "f1", "X99"}

RateInputs == { NoRate, <<"-", "1", "0", "0", "%">> }

SilenceInputs == {0, MaxDurNum}

Requests ==
    { Request("synthesize_mixed", text, voice, rate, NoLanguage, sil, w) :
        text \in MixedTexts, voice \in VoiceInputs, rate \in RateInputs,
        sil \in SilenceInputs, w \in BOOLEAN }
    \cup
    { Request("synthesize", text, voice, rate, language, 0, w) :
        text \in SynthesizeTexts, voice \in VoiceInputs, rate \in RateInputs,
        language \in {NoLanguage, EN}, w \in BOOLEAN }

\* the calls of two tasks that overlap
OverlappingRequests ==
    { Request("synthesize", Hi, "F1", NoRate, EN, 0, TRUE),
      Request("synthesize_mixed", Tagged(EN, Hi), "F1", NoRate,
              NoLanguage, 0, TRUE) }

(***************************************************************************)
(* Specifications.  Spec: one caller, call after call, on the module as it *)
(* is written and on the module with the names Style and TTSConfig bound,  *)
(* where a call gets past the initialization.  SpecConcurrent: two tasks   *)
(* on one event loop and direct calls of the engine, on the module as it   *)
(* is written: no call gets past _ensure_initialized, so the steps after   *)
(* it are never enabled and are no part of the next-state relation.        *)
(***************************************************************************)
CUSTOM_STYLES == "custom/voice_styles"

EmptyDisk == [dirs |-> {}, files |-> <<>>]

\* a tts.json with ttl.latent_dim 1, and the voice file that
\* _convert_voice_bin_to_json writes under it from a raw file of 4 floats
UnitConfig == TTSConfig(1, 2, 1)

UnitStyle ==
    LET bin_path == Join(VOICES_RAW, VoiceFilename("F1"))
        json_path == Join(VOICE_STYLES, <<"F1", "json">>)
        raw == [dirs |-> {VOICES_RAW, VOICE_STYLES},
                files |-> [p \in {bin_path} |-> Floats(4)]]
    IN _convert_voice_bin_to_json(raw, UnitConfig, bin_path, json_path,
                                  "F1").disk.files[json_path]

\* the voices whose converted file is on disk before the first call
InstalledVoices == {"F1", "M2"}

\* the model directory complete and the voices installed
ReadyDisk ==
    LET files ==
            WriteFiles(
                [p \in {Join(CACHE_ONNX, f) : f \in required_files} |->
                    IF p[2] = "tts" THEN UnitConfig
                    ELSE IF p[3] = "onnx" THEN Graph ELSE Indexer],
                [p \in {Join(VOICE_STYLES, <<v, "json">>) :
                            v \in InstalledVoices} |-> UnitStyle])
    IN [dirs |-> {CACHE_ONNX, VOICE_STYLES}, files |-> files]

\* the same, and a voice file in a directory of the caller's
CustomStylesDisk ==
    [dirs |-> ReadyDisk.dirs \cup {CUSTOM_STYLES},
     files |-> WriteFiles(ReadyDisk.files,
                   [p \in {Join(CUSTOM_STYLES, <<"F1", "json">>)} |->
                       UnitStyle])]

\* the file systems a service starts on: nothing downloaded yet, or the
\* model and the voices installed
ServiceDisks == {EmptyDisk, ReadyDisk}

\* a service no call was made on
InitCalls ==
    /\ svc_initialized = FALSE
    /\ running = 0
    /\ pc = [t \in Tasks |-> "idle"]
    /\ req = [t \in Tasks |-> NoRequest]
    /\ loc = [t \in Tasks |-> NoLocals]
    /\ outcome = [t \in Tasks |-> NoOutcome]

\* the module as it is written
AsWritten == names_bound = TYPE_CHECKING

\* the module as it is written, or with the names Style and TTSConfig
\* bound in it by the caller
WrittenOrBound == names_bound \in {TYPE_CHECKING, TRUE}

InitService ==
    /\ config_sample_rate \in ConfigSampleRates
    /\ engine = SupertonicTTS(NoDir, NoDir)
    /\ InitCalls

NoFunction ==
    /\ fn = "none"
    /\ fn_args = <<>>
    /\ fn_out = <<>>
    /\ fn_done = TRUE

\* the AssetManager of a new process on the file system disk
ServiceAssets(disk) ==
    /\ fs = disk
    /\ _config_cache = NoConfig
    /\ asset_log = <<>>

\* one caller of a service whose assets are installed
Init ==
    /\ WrittenOrBound
    /\ InitService
    /\ NoFunction
    /\ ServiceAssets(ReadyDisk)

\* two tasks on a service that may still have everything to download
InitConcurrent ==
    /\ AsWritten
    /\ InitService
    /\ NoFunction
    /\ \E disk \in ServiceDisks : ServiceAssets(disk)

Caller == CHOOSE t \in Tasks : \A u \in Tasks : t <= u

Next ==
    \/ \E r \in Requests : StartCall(Caller, r)
    \/ EnsureInitialized(Caller)
    \/ Prepare(Caller)
    \/ SpeakSegment(Caller)
    \/ Assemble(Caller)
    \/ WriteFile(Caller)
    \/ Finish(Caller)

Spec == Init /\ [][Next]_vars

\* a direct call of SupertonicTTS.speak
DirectSpeak ==
    /\ running = 0
    /\ \E res \in speak(engine, fs, _config_cache, Hi, "F1", 100,
                         NUM_INFERENCE_STEPS) :
           /\ engine' = res.engine
           /\ fs' = res.disk
           /\ _config_cache' = res.cache
    /\ UNCHANGED <<names_bound, config_sample_rate, svc_initialized, running,
                   pc, req, loc, outcome, fn_vars, asset_log>>

NextConcurrent ==
    \/ \E t \in Tasks : \E r \in OverlappingRequests : StartCall(t, r)
    \/ \E t \in Tasks : EnsureInitialized(t)
    \/ \E t \in Tasks : Finish(t)
    \/ DirectInitialize
    \/ DirectSpeak

SpecConcurrent == InitConcurrent /\ [][NextConcurrent]_vars

(***************************************************************************)
(* SpecFn: the module-level functions of tts/utils.py and                  *)
(* tts/preprocessor.py, each applied once to arguments drawn from the sets *)
(* below.  fn is the function, fn_args its arguments, fn_out its result.   *)
(***************************************************************************)
ChunkAlphabet == {"a", "A", " ", ".", "\n"}

ChunkTextInputs ==
    { <<text, max_len>> :
        text \in SeqsUpTo(ChunkAlphabet, MaxChunkTextLen),
        max_len \in 1..MaxChunkLen }

Hello == <<"H", "e", "l", "l", "o">>
Hola == <<"H", "o", "l", "a">>

BodyTokens ==
    { Hello, <<" ">>, <<".">>, <<"!">>, <<"/">>, <<"<">>, <<"\"">>,
      <<"U+2026">>, <<"U+2665">>, LangOpen(EN), LangClose(EN) }

Bodies == { Flatten(tokens) : tokens \in SeqsUpTo(BodyTokens, MaxBodyTokens) }

PreprocessTextInputs ==
    { <<text, lang>> :
        text \in Bodies \cup { Tagged(l, body) : l \in {EN, ES},
                                                 body \in Bodies },
        lang \in {EN, ES} }

MixSegmentInputs ==
    { <<lang, text>> : lang \in {EN, ES},
                       text \in {Hello, Hola \o <<".">>, <<>>} }

MixLanguagesInputs ==
    { <<segments>> : segments \in SeqsUpTo(MixSegmentInputs, MaxMixSegments) }

ValidateVoiceInputs ==
    { <<voice>> : voice \in VOICES \cup {"f1", "m3", "X99", "", "F6"} }

SampleRates == {8000, 16000, 22050, 24000, 44100, 48000}

CreateSilenceInputs ==
    { <<duration_num, sample_rate>> :
        duration_num \in 0..MaxDurNum, sample_rate \in SampleRates }

\* WAV buffers of several formats
BufferPool ==
    { _array_to_wav(<<SampleDen, -1>>, 24000),
      create_silence_buffer(MaxDurNum, 24000),
      create_silence_buffer(MaxDurNum, 48000),
      [create_silence_buffer(MaxDurNum, 24000) EXCEPT
          !.channels = 2, !.block_align = 4, !.byte_rate = 96000],
      [_array_to_wav(<<>>, 24000) EXCEPT
          !.bits_per_sample = 8, !.block_align = 1, !.byte_rate = 24000,
          !.data_size = 1, !.riff_size = 37, !.data = <<128>>],
      \* a buffer cut short: its size field counts more bytes than it holds
      [_array_to_wav(<<SampleDen, -1>>, 24000) EXCEPT !.data = <<255, 127>>] }

ConcatenateInputs ==
    { <<buffers>> : buffers \in SeqsUpTo(BufferPool, MaxConcatBuffers) }

ParseTokens ==
    { LangOpen(EN), LangClose(EN), LangClose(ES), LangOpen(DE), LangClose(DE),
      Hi, <<" ">>, <<"<">> }

\* "<en>Hi</en> <es>Hola</es>"
TwoSegmentText == JoinSpace(<< Tagged(EN, Hi), Tagged(ES, Hola) >>)

ParseLanguageSegmentsInputs ==
    { <<Flatten(tokens)>> : tokens \in SeqsUpTo(ParseTokens, MaxParseTokens) }
        \cup { <<TwoSegmentText>> }

\* 32768 Hz makes duration * sample_rate a whole number of samples
LatentSampleRates == {24000, 32768, 44100}

ChunkSizeInputs == {1, 2} \X {1, 2}

\* short durations; 44985/32768 s, which at 24000 Hz is 1/512 of a sample
\* below 32948 samples and rounds to 32948 in single precision; a duration
\* divided by the default speed of speak, 1.05; a negative duration
LatentDurations ==
    { Seconds(num) : num \in 1..MaxDurNum }
        \cup { Seconds(44985), DivideBySpeed(<<Seconds(44985)>>, 105)[1],
               Seconds(-MaxDurNum) }

SampleNoisyLatentInputs ==
    { <<duration, sample_rate, c[1], c[2], promotion>> :
        duration \in UNION { [1..k -> LatentDurations] : k \in 1..MaxBatch },
        sample_rate \in LatentSampleRates,
        c \in ChunkSizeInputs,
        promotion \in NumPyPromotions }

(***************************************************************************)
(* tts/supertonic_client.py: _infer, one step per action: the steps before *)
(* the loop, one pass of the diffusion loop, the vocoder.  fn_args is      *)
(* <<len(text_list), style.ttl.shape[0], total_step, speed, durations the  *)
(* duration predictor gives, configuration>>; fn_out is the state of the   *)
(* run.  The graphs are opaque: the output of a session is written as a    *)
(* term over its inputs, and a run of a session may raise.  speed is in    *)
(* hundredths.  With speed 0 the division gives infinite durations and no  *)
(* latent of that length can be sampled: the run ends in                   *)
(* _sample_noisy_latent with an error.  The promotion rules of the NumPy   *)
(* that runs are chosen in the step that samples the latent.               *)
(***************************************************************************)
range_from_one(n) == [i \in 1..n |-> i]

\* range(n)
range(n) == [i \in 1..n |-> i - 1]

InferNotStarted == [phase |-> "not_started", calls |-> <<>>]

\* <<sample_rate, base_chunk_size, chunk_compress_factor>>
InferConfigs == { <<32768, 1, 2>> }

InferSpeeds == {-50, 0, 50, 100, 200}

\* what the duration predictor gives, one duration per text
InferDurations == UNION { [1..k -> PredictedDurations] : k \in 1..MaxBatch }

InferInputs ==
    { x \in (1..MaxBatch) \X (1..MaxBatch) \X (0..MaxTotalSteps)
              \X InferSpeeds \X InferDurations \X InferConfigs :
        Len(x[5]) = x[1] }

\* one run of an inference session
SessionRun(session, inputs, output) ==
    [session |-> session, inputs |-> inputs, output |-> output]

\* a run of _infer that ends with an error after the session runs calls
InferRaised(calls, error) ==
    [phase |-> "raised", calls |-> calls, error |-> error]

\* the steps of _infer before the diffusion loop
InferBegin ==
    /\ fn = "_infer"
    /\ ~fn_done
    /\ fn_out.phase = "not_started"
    /\ LET n_texts == fn_args[1]
           style_rows == fn_args[2]
           speed == fn_args[4]
           cfg == fn_args[6]
           dp == SessionRun("dp_ort",
                            [text_ids |-> "text_ids", style_dp |-> "style.dp",
                             text_mask |-> "text_mask"],
                            fn_args[5])
           text_enc == SessionRun("text_enc_ort",
                                  [text_ids |-> "text_ids",
                                   style_ttl |-> "style.ttl",
                                   text_mask |-> "text_mask"],
                                  "text_emb_onnx")
       IN IF n_texts # style_rows
          THEN /\ fn_out' = InferRaised(<<>>, AssertionError)
               /\ fn_done' = TRUE
          ELSE \E raising \in {"dp_ort", "text_enc_ort", "none"} :
                 IF raising = "dp_ort"
                 THEN /\ fn_out' = InferRaised(
                                       <<[dp EXCEPT !.output = "raised"]>>,
                                       EngineError)
                      /\ fn_done' = TRUE
                 ELSE IF raising = "text_enc_ort"
                 THEN /\ fn_out' = InferRaised(
                                       <<dp, [text_enc EXCEPT
                                                 !.output = "raised"]>>,
                                       EngineError)
                      /\ fn_done' = TRUE
                 ELSE IF speed = 0
                 THEN /\ \E error \in InfiniteLatentErrors :
                            fn_out' = InferRaised(<<dp, text_enc>>, error)
                      /\ fn_done' = TRUE
                 ELSE \E promotion \in NumPyPromotions :
                      LET dur == DivideBySpeed(fn_args[5], speed)
                          latent == _sample_noisy_latent(dur, cfg[1],
                                                         cfg[2], cfg[3],
                                                         promotion)
                      IN IF latent.raised # NoError
                         THEN /\ fn_out' = InferRaised(<<dp, text_enc>>,
                                                       latent.raised)
                              /\ fn_done' = TRUE
                         ELSE /\ fn_out' =
                                     [phase |-> "diffusion",
                                      calls |-> <<dp, text_enc>>,
                                      step |-> 0,
                                      dur |-> dur,
                                      xt |-> [term |-> "masked_noise",
                                              latent_len |-> latent.xt_len],
                                      latent_mask |-> latent.latent_lengths]
                              /\ fn_done' = FALSE
    /\ UNCHANGED <<fn, fn_args, svc_vars, asset_vars>>

\* one pass of the loop: for step in range(total_step)
InferStep ==
    /\ fn = "_infer"
    /\ ~fn_done
    /\ fn_out.phase = "diffusion"
    /\ LET steps == range(fn_args[3])
       IN /\ fn_out.step < Len(steps)
          /\ LET inputs == [noisy_latent |-> fn_out.xt,
                            text_emb |-> "text_emb_onnx",
                            style_ttl |-> "style.ttl",
                            text_mask |-> "text_mask",
                            latent_mask |-> fn_out.latent_mask,
                            current_step |-> steps[fn_out.step + 1],
                            total_step |-> fn_args[3]]
                 xt == [term |-> "vector_est", inputs |-> inputs]
             IN \E raises \in BOOLEAN :
                  IF raises
                  THEN /\ fn_out' = InferRaised(
                                        Append(fn_out.calls,
                                               SessionRun("vector_est_ort",
                                                          inputs, "raised")),
                                        EngineError)
                       /\ fn_done' = TRUE
                  ELSE /\ fn_out' = [fn_out EXCEPT
                                        !.calls = Append(@,
                                            SessionRun("vector_est_ort",
                                                       inputs, xt)),
                                        !.xt = xt,
                                        !.step = @ + 1]
                       /\ UNCHANGED fn_done
    /\ UNCHANGED <<fn, fn_args, svc_vars, asset_vars>>

\* after the loop: the vocoder on the final latent, and the return
InferVocoder ==
    /\ fn = "_infer"
    /\ ~fn_done
    /\ fn_out.phase = "diffusion"
    /\ fn_out.step >= Len(range(fn_args[3]))
    /\ LET inputs == [latent |-> fn_out.xt]
           wav == [term |-> "vocoder", inputs |-> inputs]
       IN \E raises \in BOOLEAN :
            fn_out' = IF raises
                      THEN InferRaised(
                               Append(fn_out.calls,
                                      SessionRun("vocoder_ort", inputs,
                                                 "raised")),
                               EngineError)
                      ELSE [fn_out EXCEPT
                               !.phase = "returned",
                               !.calls = Append(@, SessionRun("vocoder_ort",
                                                              inputs, wav))]
    /\ fn_done' = TRUE
    /\ UNCHANGED <<fn, fn_args, svc_vars, asset_vars>>

\* samples below -1, at -1, inside, at 1 and above 1, in units of
\* 1/SampleDen
SampleInputs ==
    { -SampleDen - 1, -SampleDen, -1, 0, 3, SampleDen, SampleDen + 2 }

ArrayToWavInputs ==
    { <<wav_array, sample_rate>> :
        wav_array \in SeqsUpTo(SampleInputs, MaxSamples),
        sample_rate \in {24000, 44100} }

\* speak(text, voice_key, {speed, num_inference_steps})
SpeakInputs ==
    { <<text, voice_key, speed, NUM_INFERENCE_STEPS>> :
        text \in {TwoSegmentText, Tagged(EN, Hi), Hi},
        voice_key \in {"F1", "X99"},
        speed \in {-50, 0, 100, 200} }

WrapTokens ==
    { Hi, <<" ">>, <<"\n">>, <<"<">>, LangOpen(EN), LangClose(EN),
      LangOpen(ES), LangClose(ES) }

WrapInputs ==
    { <<Flatten(tokens), lang>> :
        tokens \in SeqsUpTo(WrapTokens, MaxWrapTokens), lang \in {EN, ES} }

\* split_into_chunks(text, max_length, preserve_sentences)
SplitChars == {"a", " ", ".", "?"}

SplitIntoChunksInputs ==
    { <<text, max_length, preserve_sentences>> :
        text \in SeqsUpTo(SplitChars, MaxSplitTextLen),
        max_length \in 1..MaxSplitLength,
        preserve_sentences \in BOOLEAN }

FnInputs(f) ==
    CASE f = "chunk_text" -> ChunkTextInputs
      [] f = "split_into_chunks" -> SplitIntoChunksInputs
      [] f = "wrap_with_language_tags" -> WrapInputs
      [] f = "speak" -> SpeakInputs
      [] f = "_array_to_wav" -> ArrayToWavInputs
      [] f = "_infer" -> InferInputs
      [] f = "_sample_noisy_latent" -> SampleNoisyLatentInputs
      [] f = "parse_language_segments" -> ParseLanguageSegmentsInputs
      [] f = "preprocess_text" -> PreprocessTextInputs
      [] f = "mix_languages" -> MixLanguagesInputs
      [] f = "validate_voice" -> ValidateVoiceInputs
      [] f = "create_silence_buffer" -> CreateSilenceInputs
      [] f = "concatenate_wav_buffers" -> ConcatenateInputs

Functions ==
    { "chunk_text", "preprocess_text", "mix_languages", "validate_voice",
      "create_silence_buffer", "concatenate_wav_buffers",
      "parse_language_segments", "_sample_noisy_latent", "_infer",
      "_array_to_wav", "speak", "wrap_with_language_tags",
      "split_into_chunks" }

\* the engine speak is called on, the file system and the cache: a new
\* engine, or one on which _initialize_pipeline has run on ReadyDisk,
\* without or with a directory of voice styles of its own
SpeakStarts ==
    { [engine |-> SupertonicTTS(NoDir, NoDir), disk |-> d, cache |-> NoConfig] :
        d \in {EmptyDisk, ReadyDisk} }
    \cup
    { LET i == _initialize_pipeline(SupertonicTTS(NoDir, x[1]), ReadyDisk,
                                    NoConfig, "downloaded", "none")
      IN [engine |-> i.engine, disk |-> x[2], cache |-> i.cache] :
        x \in { <<NoDir, ReadyDisk>>, <<CUSTOM_STYLES, CustomStylesDisk>>,
                <<CUSTOM_STYLES, ReadyDisk>> } }

InitFn ==
    /\ fn \in Functions
    /\ IF fn = "speak" THEN WrittenOrBound ELSE AsWritten
    /\ config_sample_rate = ENGINE_DEFAULT_SAMPLE_RATE
    /\ InitCalls
    /\ fn_args \in FnInputs(fn)
    /\ fn_out = IF fn = "_infer" THEN InferNotStarted ELSE <<>>
    /\ fn_done = FALSE
    /\ IF fn = "speak"
       THEN \E start \in SpeakStarts :
               /\ engine = start.engine
               /\ fs = start.disk
               /\ _config_cache = start.cache
       ELSE /\ engine = SupertonicTTS(NoDir, NoDir)
            /\ fs = EmptyDisk
            /\ _config_cache = NoConfig
    /\ asset_log = <<>>

Apply(f, result) ==
    /\ fn = f
    /\ ~fn_done
    /\ fn_out' = result
    /\ fn_done' = TRUE
    /\ UNCHANGED <<fn, fn_args, svc_vars, asset_vars>>

ApplyChunkText == Apply("chunk_text", chunk_text(fn_args[1], fn_args[2]))

ApplyPreprocessText ==
    Apply("preprocess_text", preprocess_text(fn_args[1], fn_args[2]))

ApplyMixLanguages == Apply("mix_languages", mix_languages(fn_args[1]))

ApplyValidateVoice == Apply("validate_voice", validate_voice(fn_args[1]))

ApplyCreateSilenceBuffer ==
    Apply("create_silence_buffer",
          create_silence_buffer(fn_args[1], fn_args[2]))

ApplySpeak ==
    /\ fn = "speak"
    /\ ~fn_done
    /\ \E result \in speak(engine, fs, _config_cache, fn_args[1],
                            fn_args[2], fn_args[3], fn_args[4]) :
         /\ fn_out' = result
         /\ engine' = result.engine
         /\ fs' = result.disk
         /\ _config_cache' = result.cache
    /\ fn_done' = TRUE
    /\ UNCHANGED <<fn, fn_args, names_bound, config_sample_rate,
                   svc_initialized, running,
                   pc, req, loc, outcome, asset_log>>

ApplyWrapWithLanguageTags ==
    Apply("wrap_with_language_tags",
          wrap_with_language_tags(fn_args[1], fn_args[2]))

ApplySplitIntoChunks ==
    Apply("split_into_chunks",
          split_into_chunks(fn_args[1], fn_args[2], fn_args[3]))

ApplyArrayToWav ==
    Apply("_array_to_wav", _array_to_wav(fn_args[1], fn_args[2]))

ApplyConcatenateWavBuffers ==
    Apply("concatenate_wav_buffers", concatenate_wav_buffers(fn_args[1]))

ApplyParseLanguageSegments ==
    Apply("parse_language_segments", parse_language_segments(fn_args[1]))

ApplySampleNoisyLatent ==
    Apply("_sample_noisy_latent",
          _sample_noisy_latent(fn_args[1], fn_args[2], fn_args[3],
                               fn_args[4], fn_args[5]))

NextFn ==
    \/ ApplyArrayToWav
    \/ ApplySplitIntoChunks
    \/ ApplyWrapWithLanguageTags
    \/ ApplySpeak
    \/ InferBegin
    \/ InferStep
    \/ InferVocoder
    \/ ApplyChunkText
    \/ ApplySampleNoisyLatent
    \/ ApplyParseLanguageSegments
    \/ ApplyPreprocessText
    \/ ApplyMixLanguages
    \/ ApplyValidateVoice
    \/ ApplyCreateSilenceBuffer
    \/ ApplyConcatenateWavBuffers

SpecFn == InitFn /\ [][NextFn]_vars

(***************************************************************************)
(* SpecAssets: one AssetManager, called up to MaxAssetCalls times through  *)
(* its public methods, on a file system that may already hold model files, *)
(* raw voice files and converted voice files.  asset_log holds the calls,  *)
(* those that get_or_download_all_voices makes included.                   *)
(***************************************************************************)
\* the required files a model directory holds before the first call
InitialListings ==
    { {}, required_files, required_files \ {<<"vocoder", "onnx">>} }

\* what a tts.json present before the first call holds
InitialConfigs == { RepositoryConfig, InvalidJson }

\* the float count of a raw voice file present before the first call, -1
\* for no file
InitialRawLengths == {-1, 5, 6}

InitialFiles(listing, custom_listing, config, raw_length, converted) ==
    LET onnx(dir, names) ==
            [p \in {Join(dir, f) : f \in names} |->
                IF p[2] = "tts" THEN config
                ELSE IF p[3] = "onnx" THEN Graph ELSE Indexer]
        raw == IF raw_length < 0 THEN <<>>
               ELSE [p \in {Join(VOICES_RAW, VoiceFilename("F1"))} |->
                        Floats(raw_length)]
        style == IF ~converted THEN <<>>
                 ELSE [p \in {Join(VOICE_STYLES, <<"F1", "json">>)} |->
                          [kind |-> "style"]]
    IN WriteFiles(WriteFiles(onnx(CACHE_ONNX, listing),
                             onnx(CUSTOM_ONNX, custom_listing)),
                  WriteFiles(raw, style))

InitAssets ==
    /\ AsWritten
    /\ InitService
    /\ config_sample_rate = ENGINE_DEFAULT_SAMPLE_RATE
    /\ NoFunction
    /\ \E listing \in InitialListings,
          custom_listing \in {{}},
          config \in InitialConfigs,
          raw_length \in InitialRawLengths,
          converted \in BOOLEAN :
         LET files == InitialFiles(listing, custom_listing, config,
                                   raw_length, converted)
         IN fs = [dirs |-> {p[1] : p \in DOMAIN files}, files |-> files]
    /\ _config_cache = NoConfig
    /\ asset_log = <<>>

OnnxDirInputs == {NoDir, CUSTOM_ONNX}
VoiceKeyInputs == {"F1", "X99"}

\* the calls the caller itself made
TopCalls == { i \in 1..Len(asset_log) : asset_log[i].top }

StylesDirInputs == {NoDir, CUSTOM_STYLES}

\* the downloads of one call of get_or_download_all_voices end alike
AllVoicesDownloads == { [v \in VOICES |-> o] : o \in HubOutcomes }

EnsureOnnxAssets ==
    /\ Cardinality(TopCalls) < MaxAssetCalls
    /\ \E onnx_dir \in OnnxDirInputs, download \in SnapshotOutcomes :
         LET result == ensure_onnx_assets(fs, _config_cache, onnx_dir,
                                          download)
         IN /\ fs' = result.disk
            /\ _config_cache' = result.cache
            /\ asset_log' = Append(asset_log,
                                   AssetCall("ensure_onnx_assets",
                                             result.path, result.path, fs,
                                             _config_cache, result, TRUE))
    /\ UNCHANGED <<svc_vars, fn_vars>>

GetConfig ==
    /\ Cardinality(TopCalls) < MaxAssetCalls
    /\ LET got == get_config(fs, _config_cache)
           result == [raised |-> got.raised, disk |-> fs, events |-> <<>>]
       IN /\ _config_cache' = IF got.raised = NoError THEN got.config
                              ELSE _config_cache
          /\ asset_log' = Append(asset_log,
                                 AssetCall("get_config", NoDir, CACHE_ONNX,
                                           fs, _config_cache, result, TRUE))
    /\ UNCHANGED <<fs, svc_vars, fn_vars>>

EnsureVoiceStyle ==
    /\ Cardinality(TopCalls) < MaxAssetCalls
    /\ \E voice_key \in VoiceKeyInputs, styles_dir \in StylesDirInputs,
          download \in HubOutcomes :
         LET result == ensure_voice_style(fs, _config_cache, voice_key,
                                          styles_dir, download)
         IN /\ fs' = result.disk
            /\ _config_cache' = result.cache
            /\ asset_log' = Append(asset_log,
                                   AssetCall("ensure_voice_style",
                                             voice_key, StylesDir(styles_dir),
                                             fs, _config_cache, result,
                                             TRUE))
    /\ UNCHANGED <<svc_vars, fn_vars>>

GetOrDownloadAllVoices ==
    /\ Cardinality(TopCalls) < MaxAssetCalls
    /\ \E styles_dir \in StylesDirInputs, downloads \in AllVoicesDownloads :
         LET result == get_or_download_all_voices(fs, _config_cache,
                                                  styles_dir, downloads)
         IN /\ fs' = result.disk
            /\ _config_cache' = result.cache
            /\ asset_log' = Append(asset_log \o result.calls,
                                   AssetCall("get_or_download_all_voices",
                                             NoDir, result.path, fs,
                                             _config_cache, result, TRUE))
    /\ UNCHANGED <<svc_vars, fn_vars>>

NextAssets ==
    \/ EnsureOnnxAssets
    \/ GetConfig
    \/ EnsureVoiceStyle
    \/ GetOrDownloadAllVoices

SpecAssets == InitAssets /\ [][NextAssets]_vars

(***************************************************************************)
(* Properties of synthesize and synthesize_mixed.                          *)
(***************************************************************************)
\* the call of task t gave its buffer list to concatenate_wav_buffers
Concatenated(t) == req[t].op = "synthesize_mixed" /\ loc[t].concatenated

\* seg_1, silence, seg_2, silence, ..., seg_n
Alternating(n) ==
    [i \in 1..(2 * n - 1) |->
        IF i % 2 = 1 THEN <<"segment", (i + 1) \div 2>>
        ELSE <<"silence", i \div 2>>]

\* C1: for a tagged text of n >= 1 segments, the buffer list synthesize_mixed
\* hands to concatenate is seg_1, silence, seg_2, ..., seg_n: n - 1 silence
\* buffers, one between adjacent segments, none after the last, the segment
\* buffers in segment order.
C1_SilenceBetweenSegmentsOnly ==
    \A t \in Tasks :
        Concatenated(t) => loc[t].kinds = Alternating(Len(loc[t].segments))

\* the list handed to concatenate ends with a silence buffer
C1_SilenceAfterLastSegment ==
    \E t \in Tasks :
        /\ Concatenated(t)
        /\ loc[t].kinds[Len(loc[t].kinds)][1] = "silence"
        /\ Len(loc[t].kinds) = 2 * Len(loc[t].segments)

\* the steps of a call after which its try block has raised before the write
FailedBeforeWrite(t) ==
    /\ outcome[t].status = "raised"
    /\ loc[t].inner_error.origin
           \in {"_initialize_pipeline", "speak", "ensure_voice_style",
                "synthesize_mixed"}

\* what the call of task t assembles from its buffer list
Assembled(t) ==
    IF req[t].op = "synthesize" THEN loc[t].audio_buffers[1]
    ELSE concatenate_wav_buffers(loc[t].audio_buffers)

\* C3: a failed synthesis yields no partial output.  An error raised by
\* initialization or by the inference of a segment reaches the caller
\* unchanged, with no result and no call of write_audio_file;
\* write_audio_file is called at most once, only when write_to_file is
\* true, only after every segment is synthesized and the final buffer
\* assembled, and with the bytes returned as file_buffer.
C3_NoPartialOutput ==
    \A t \in Tasks :
        /\ outcome[t].status = "raised" =>
               /\ outcome[t].error = loc[t].inner_error
               /\ outcome[t].file_buffer = EmptyBytes
               /\ outcome[t].saved_path = NoPath
        /\ FailedBeforeWrite(t) => loc[t].writes = <<>>
        /\ Len(loc[t].writes) <= 1
        /\ loc[t].writes # <<>> =>
               /\ req[t].write_to_file
               /\ loc[t].idx = Len(loc[t].segments) + 1
               /\ Len(loc[t].speak_log) = Len(loc[t].segments)
               /\ loc[t].file_buffer = Assembled(t)
               /\ loc[t].writes[1] = loc[t].file_buffer
        /\ outcome[t].status = "returned" =>
               /\ outcome[t].file_buffer = Assembled(t)
               /\ req[t].write_to_file <=> loc[t].writes # <<>>
               /\ loc[t].writes # <<>> =>
                      loc[t].writes[1] = outcome[t].file_buffer

\* the second segment of a call that was to write a file fails, after the
\* audio of the first segment was made
C3_FailsAfterFirstSegment ==
    \E t \in Tasks :
        /\ outcome[t].status = "raised"
        /\ outcome[t].error = EngineError
        /\ req[t].write_to_file
        /\ Len(loc[t].audio_buffers) >= 1
        /\ loc[t].writes = <<>>

\* C4: in every execution, two concurrent first calls included, each of
\* the four inference graphs and the character indexer is loaded at most
\* once.
C4_LoadedAtMostOnce == \A c \in Components : engine.loaded[c] <= 1

\* the first calls of both tasks have run _initialize_pipeline on installed
\* assets and have raised: no graph and no indexer was loaded
C4_BothFirstCallsRaisedNothingLoaded ==
    /\ \A t \in Tasks :
           /\ pc[t] = "done"
           /\ outcome[t].status = "raised"
           /\ loc[t].inner_error = TTSConfigUnbound
    /\ ~svc_initialized
    /\ all_exist(fs.files, CACHE_ONNX)
    /\ \A c \in Components : engine.loaded[c] = 0

\* a call whose voice argument is outside the closed set of voice keys
InvalidVoiceCall(t) == req[t].op # "none" /\ req[t].voice \notin VOICES

\* C5 as stated: synthesize and synthesize_mixed called with a voice key
\* outside the closed set fail with an invalid-key error and perform no
\* inference.
C5_InvalidVoiceFails ==
    \A t \in Tasks :
        InvalidVoiceCall(t) =>
            /\ loc[t].infer_log = <<>>
            /\ outcome[t].status # "returned"
            /\ (/\ pc[t] = "done"
                /\ loc[t].inner_error.origin # "_initialize_pipeline") =>
                   outcome[t].error = InvalidVoiceKey

\* C5, amended: synthesize and synthesize_mixed called with a voice key
\* outside the closed set never fail with an invalid-key error; the key is
\* replaced by 'F1' and every call of speak and every inference run of the
\* call uses 'F1'.
C5_InvalidVoiceFallsBackToF1 ==
    \A t \in Tasks :
        InvalidVoiceCall(t) =>
            /\ outcome[t].error # InvalidVoiceKey
            /\ \A i \in DOMAIN loc[t].speak_log :
                   loc[t].speak_log[i].voice_key = "F1"
            /\ \A i \in DOMAIN loc[t].infer_log :
                   loc[t].infer_log[i].voice_key = "F1"

\* a call with an unknown voice returns audio
C5_InvalidVoiceReturnsAudio ==
    \E t \in Tasks :
        /\ req[t].voice = "X99"
        /\ outcome[t].status = "returned"
        /\ loc[t].infer_log # <<>>

\* C6: validate_voice returns its argument when it is one of the ten voice
\* keys and 'F1' otherwise, lowercase keys included, so the voice key
\* synthesize and synthesize_mixed pass to speak is always in the closed set.
C6_VoiceKeyAlwaysValid ==
    /\ \A v \in VOICES \cup VoiceInputs \cup {"m3", "", "F6"} :
           /\ v \in VOICES => validate_voice(v) = v
           /\ v \notin VOICES => validate_voice(v) = "F1"
    /\ \A t \in Tasks :
           \A i \in DOMAIN loc[t].speak_log :
               /\ loc[t].speak_log[i].voice_key \in VOICES
               /\ req[t].voice \in VOICES =>
                      loc[t].speak_log[i].voice_key = req[t].voice

\* speak was called for a caller that gave a lowercase key
C6_LowercaseKeyReachesSpeak ==
    \E t \in Tasks :
        /\ req[t].voice = "f1"
        /\ loc[t].speak_log # <<>>
        /\ loc[t].speak_log[1].voice_key = "F1"

(***************************************************************************)
(* Properties of the functions.                                            *)
(***************************************************************************)
Applied(f) == fn = f /\ fn_done

SameFormat(a, b) ==
    /\ a.sample_rate = b.sample_rate
    /\ a.channels = b.channels
    /\ a.bits_per_sample = b.bits_per_sample

FormatsDiffer(buffers) ==
    \E i \in 2..Len(buffers) : ~SameFormat(buffers[i], buffers[1])

IsBuffer(b) == "data" \in DOMAIN b

\* C2: concatenate on two or more buffers checks each buffer's sample rate,
\* channel count and bit depth against the first buffer's, and fails,
\* returning no buffer, when one differs.
C2_ConcatenateRejectsMismatch ==
    (/\ Applied("concatenate_wav_buffers")
     /\ Len(fn_args[1]) >= 2
     /\ FormatsDiffer(fn_args[1])) => ~IsBuffer(fn_out)

\* a combined buffer made of buffers of two sample rates
C2_CombinedFromTwoSampleRates ==
    /\ Applied("concatenate_wav_buffers")
    /\ Len(fn_args[1]) = 2
    /\ fn_args[1][1].sample_rate # fn_args[1][2].sample_rate
    /\ IsBuffer(fn_out)
    /\ fn_out.sample_rate = fn_args[1][1].sample_rate
    /\ fn_out.data_size =
           fn_args[1][1].data_size + fn_args[1][2].data_size

HasSpace(s) == \E i \in 1..Len(s) : IsSpace(s[i])

\* C7: chunk(text, L) never returns a chunk longer than L unless the chunk
\* is a single word that alone exceeds L.
C7_ChunkWithinMaxLen ==
    Applied("chunk_text") =>
        \A i \in 1..Len(fn_out) :
            Len(fn_out[i]) <= fn_args[2] \/ ~HasSpace(fn_out[i])

\* a chunk of several words longer than max_len
C7_LongChunkOfSeveralWords ==
    /\ Applied("chunk_text")
    /\ \E i \in 1..Len(fn_out) :
           Len(fn_out[i]) > fn_args[2] /\ HasSpace(fn_out[i])

\* mono, 16 bit, PCM, of the given sample rate, the sizes of the header
\* those of n samples, every byte of the data zero
CanonicalSilence(b, n, sample_rate) ==
    /\ b.audio_format = 1
    /\ b.channels = 1
    /\ b.bits_per_sample = 16
    /\ b.sample_rate = sample_rate
    /\ b.block_align = 2
    /\ b.byte_rate = 2 * sample_rate
    /\ b.data_size = 2 * n
    /\ b.riff_size = 36 + 2 * n
    /\ Len(b.data) = 2 * n
    /\ \A i \in 1..Len(b.data) : b.data[i] = 0

\* C8 as stated: silence(d, r) is a canonical mono 16-bit buffer of exactly
\* round(d * r) zero samples, with data_size 2 * round(d * r).
C8_SilenceRounds ==
    Applied("create_silence_buffer") =>
        CanonicalSilence(fn_out,
                         SilenceSamples_rounded(fn_args[1], fn_args[2]),
                         fn_args[2])

\* C8, amended: silence(d, r) is a canonical mono 16-bit buffer of exactly
\* n zero samples with data_size 2 * n, where n is d * r truncated to an
\* integer: n <= d * r < n + 1.
C8_SilenceTruncates ==
    Applied("create_silence_buffer") =>
        \E n \in 0..(MaxDurNum * 2) :
            /\ n * DurDen <= fn_args[1] * fn_args[2]
            /\ fn_args[1] * fn_args[2] < (n + 1) * DurDen
            /\ CanonicalSilence(fn_out, n, fn_args[2])

\* a silence whose d * r lies above the half between two integers
C8_TruncatedBelowRounded ==
    /\ Applied("create_silence_buffer")
    /\ 2 * ((fn_args[1] * fn_args[2]) % DurDen) > DurDen
    /\ fn_out.data_size
           = 2 * (SilenceSamples_rounded(fn_args[1], fn_args[2]) - 1)

\* a body without the characters of a tag
PlainBody(body) ==
    \A i \in 1..Len(body) : body[i] \notin {"<", ">", "/"}

\* text is <lang>body</lang> for a plain body
WrappedPlain(text, lang) ==
    \E body \in Bodies : PlainBody(body) /\ text = Tagged(lang, body)

\* C9: for text already wrapped as <L>body</L>, the result of
\* preprocess_text(text, L) holds exactly one opening tag <L> and exactly
\* one closing tag </L>.
C9_WrappedTextKeepsOneTagPair ==
    (Applied("preprocess_text") /\ WrappedPlain(fn_args[1], fn_args[2])) =>
        /\ Count(fn_out, LangOpen(fn_args[2])) = 1
        /\ Count(fn_out, LangClose(fn_args[2])) = 1

\* the result for a wrapped text holds no closing tag
C9_ClosingTagLost ==
    /\ Applied("preprocess_text")
    /\ fn_args[1] = Tagged(EN, Hello)
    /\ fn_args[2] = EN
    /\ Count(fn_out, LangClose(EN)) = 0

CountOpen(s) == Count(s, LangOpen(EN)) + Count(s, LangOpen(ES))
CountClose(s) == Count(s, LangClose(EN)) + Count(s, LangClose(ES))

\* C10: mix_languages(segments) holds, for each (lang, text) segment in
\* input order, exactly one <lang>...</lang> pair, the pairs joined by
\* single spaces; it is the empty string for the empty list, and
\* '<en>Hello</en>' for [('en', 'Hello')].
C10_OneTagPairPerSegment ==
    Applied("mix_languages") =>
        LET segments == fn_args[1]
        IN /\ segments = <<>> => fn_out = <<>>
           /\ CountOpen(fn_out) = Len(segments)
           /\ CountClose(fn_out) = Len(segments)
           /\ segments = << <<EN, Hello>> >> => fn_out = Tagged(EN, Hello)

\* the one segment ('en', 'Hello') gives a doubled pair of tags
C10_DoubledTagPair ==
    /\ Applied("mix_languages")
    /\ fn_args[1] = << <<EN, Hello>> >>
    /\ fn_out = LangOpen(EN) \o LangOpen(EN) \o Hello \o <<".">>
                    \o LangClose(EN) \o LangClose(EN)


\* C11: every segment parse_language_segments produces has a language of
\* the supported set {en, ko, es, pt, fr}; a well-formed tag pair of any
\* other two-letter code is rejected, not yielded as a segment.
C11_SegmentLanguagesSupported ==
    Applied("parse_language_segments") =>
        \A k \in 1..Len(fn_out) : is_supported_language(fn_out[k][1])

\* the pair <de>Hi</de> is yielded as a segment of language de
C11_UnsupportedCodeYielded ==
    /\ Applied("parse_language_segments")
    /\ fn_args[1] = Tagged(DE, Hi)
    /\ fn_out = << <<DE, Hi>> >>

\* an opening tag <xx> at i, its closing tag </xx> of the same code at j,
\* and no "<" between them
IsSpan(s, i, j) ==
    /\ i + 4 <= j
    /\ j + 4 <= Len(s)
    /\ s[i] = "<"
    /\ s[i + 1] \in LowerLetters
    /\ s[i + 2] \in LowerLetters
    /\ s[i + 3] = ">"
    /\ s[j] = "<"
    /\ s[j + 1] = "/"
    /\ s[j + 2] = s[i + 1]
    /\ s[j + 3] = s[i + 2]
    /\ s[j + 4] = ">"
    /\ \A k \in (i + 4)..(j - 1) : s[k] # "<"

SpanBody(s, p) == Strip(SubSeq(s, p[1] + 4, p[2] - 1))

\* the spans of s whose trimmed body is not empty
SpansOf(s) ==
    { p \in (1..Len(s)) \X (1..Len(s)) :
        IsSpan(s, p[1], p[2]) /\ SpanBody(s, p) # <<>> }

\* the place of span p among the spans P, left to right
SpanRank(P, p) == Cardinality({q \in P : q[1] <= p[1]})

\* C12: parse_language_segments returns, left to right, exactly one
\* (language, trimmed body) pair for each span <xx>body</xx> whose two
\* codes are the same two lowercase letters and whose trimmed body is not
\* empty, and nothing else; "<en>Hi</en> <es>Hola</es>" gives
\* [("en", "Hi"), ("es", "Hola")].
C12_OnePairPerSpan ==
    Applied("parse_language_segments") =>
        LET s == fn_args[1]
            P == SpansOf(s)
        IN /\ Len(fn_out) = Cardinality(P)
           /\ \A p \in P :
                  fn_out[SpanRank(P, p)]
                      = <<SubSeq(s, p[1] + 1, p[1] + 2), SpanBody(s, p)>>
           /\ s = TwoSegmentText => fn_out = << <<EN, Hi>>, <<ES, Hola>> >>

\* an opening tag without its closing tag, then a well-formed pair: the
\* one segment of the pair
C12_StrayTagThenSpan ==
    /\ Applied("parse_language_segments")
    /\ fn_args[1] = LangOpen(DE) \o Tagged(EN, Hi)
    /\ fn_out = << <<EN, Hi>> >>


\* a call of synthesize_mixed on a text that parses to zero segments
ZeroSegmentCall(t) ==
    req[t].op = "synthesize_mixed" /\ SpansOf(req[t].text) = {}

\* the call of task t calls no inference and writes no file
NothingSynthesized(t) ==
    /\ loc[t].speak_log = <<>>
    /\ loc[t].infer_log = <<>>
    /\ loc[t].writes = <<>>
    /\ pc[t] \notin {"speak", "assemble", "write"}
    /\ outcome[t].status # "returned"

Detected(t) == req[t].op = "synthesize" /\ loc[t].idx >= 1

\* C14: in synthesize the language detector is invoked if and only if no
\* explicit language is given; when it is invoked, detected_language is the
\* detector's code if that code is in {en, ko, es, pt, fr} and 'es'
\* otherwise, never an unsupported language.
C14_DetectorOnlyWithoutLanguage ==
    \A t \in Tasks :
        /\ req[t].language # NoLanguage => loc[t].detector_calls = <<>>
        /\ Detected(t) =>
               /\ Len(loc[t].detector_calls)
                      = (IF req[t].language = NoLanguage THEN 1 ELSE 0)
               /\ req[t].language = NoLanguage =>
                      LET result == loc[t].detector_calls[1]
                          code == IF "language" \in DOMAIN result
                                  THEN result.language ELSE ES
                      IN /\ code \in SUPPORTED_LANGUAGES =>
                                loc[t].detected_lang = code
                         /\ code \notin SUPPORTED_LANGUAGES =>
                                loc[t].detected_lang = ES
                         /\ loc[t].detected_lang \in SUPPORTED_LANGUAGES
                         /\ outcome[t].status = "returned" =>
                                outcome[t].detected_language
                                    = loc[t].detected_lang

\* the detector answered 'de' and the call returned with language 'es'
C14_UnsupportedDetectionFallsBack ==
    \E t \in Tasks :
        /\ req[t].op = "synthesize"
        /\ req[t].language = NoLanguage
        /\ loc[t].detector_calls # <<>>
        /\ "language" \in DOMAIN loc[t].detector_calls[1]
        /\ loc[t].detector_calls[1].language = DE
        /\ outcome[t].status = "returned"
        /\ outcome[t].detected_language = ES


\* duration.max() * sample_rate of the arguments of _sample_noisy_latent,
\* exactly, and chunk_size
WavLenMax == MulIntDouble(MaxDuration(fn_args[1]), fn_args[2])
ChunkSize == fn_args[3] * fn_args[4]

\* the least whole number of samples that covers wav_len_max
WavLenMaxCeiling == WavLenMax.whole + (IF WavLenMax.fraction THEN 1 ELSE 0)

\* _sample_noisy_latent was called on positive durations and returned the
\* latent
LatentSampled ==
    /\ Applied("_sample_noisy_latent")
    /\ \A i \in 1..Len(fn_args[1]) : fn_args[1][i].m > 0
    /\ fn_out.raised = NoError

\* C16: the latent length is ceil(duration * sample_rate / chunk_size) for
\* every positive duration, also when duration * sample_rate is no
\* integer.  For an integer chunk_size the ceiling of the quotient is the
\* ceiling of ceil(duration * sample_rate) / chunk_size.
C16_LatentLenIsCeiling ==
    LatentSampled =>
        fn_out.latent_len = (WavLenMaxCeiling + ChunkSize - 1) \div ChunkSize

\* a duration of a fraction of a sample beyond a whole number of chunks:
\* the latent is one shorter than the ceiling and does not cover the
\* duration
C16_FractionalSampleDropped ==
    /\ LatentSampled
    /\ WavLenMax.fraction
    /\ WavLenMax.whole >= ChunkSize
    /\ fn_out.latent_len * ChunkSize <= WavLenMax.whole
    /\ fn_out.latent_len
           = (WavLenMaxCeiling + ChunkSize - 1) \div ChunkSize - 1


\* the runs of one session in a run of _infer, in order
RunsOf(session) ==
    SelectSeq(fn_out.calls, LAMBDA c : c.session = session)

InferReturned == fn = "_infer" /\ fn_out.phase = "returned"

(* C15: in one run of _infer that returns, the latent estimator runs       *)
(* exactly total_step times, with step indices 0, 1, ..., total_step - 1   *)
(* in that order and the same total step count each time; the first run    *)
(* receives the masked initial latent, each later run the output of the    *)
(* run before it; the vocoder runs exactly once, as the last session run,  *)
(* on the output of the last step.                                         *)
C15_DiffusionLoopOrder ==
    InferReturned =>
        LET estimator == RunsOf("vector_est_ort")
            vocoder == RunsOf("vocoder_ort")
            total_step == fn_args[3]
            calls == fn_out.calls
        IN /\ Len(estimator) = total_step
           /\ \A i \in 1..Len(estimator) :
                 /\ estimator[i].inputs.current_step = i - 1
                 /\ estimator[i].inputs.total_step = total_step
                 /\ IF i = 1
                    THEN estimator[i].inputs.noisy_latent.term = "masked_noise"
                    ELSE estimator[i].inputs.noisy_latent
                             = estimator[i - 1].output
           /\ Len(vocoder) = 1
           /\ calls[Len(calls)] = vocoder[1]
           /\ \A i \in 1..(Len(calls) - 1) :
                 calls[i].session # "vocoder_ort"
           /\ IF total_step = 0
              THEN vocoder[1].inputs.latent.term = "masked_noise"
              ELSE /\ calls[Len(calls) - 1] = estimator[total_step]
                   /\ vocoder[1].inputs.latent = estimator[total_step].output

C15_ThreeStepsThenVocoder ==
    /\ InferReturned
    /\ fn_args[3] = 3
    /\ Len(RunsOf("vector_est_ort")) = 3
    /\ Len(RunsOf("vocoder_ort")) = 1


\* the inference runs a call has made so far
InferenceRuns(t) == loc[t].infer_log

(* C17: the speed that synthesize and synthesize_mixed pass to inference   *)
(* is strictly positive for every rate option.                             *)
C17_SpeedPositive ==
    \A t \in Tasks :
        \A i \in 1..Len(InferenceRuns(t)) : InferenceRuns(t)[i].speed > 0

C17_MinusHundredPercentGivesZero ==
    \E t \in Tasks :
        /\ req[t].rate = <<"-", "1", "0", "0", "%">>
        /\ Len(InferenceRuns(t)) > 0
        /\ InferenceRuns(t)[1].speed = 0


(***************************************************************************)
(* Properties of the AssetManager.                                         *)
(***************************************************************************)
\* the calls of op in the log, by position
CallsOf(op) == { i \in 1..Len(asset_log) : asset_log[i].op = op }

\* call i downloaded
Fetched(i) == asset_log[i].events # <<>> /\ asset_log[i].events[1] # "convert"

\* call i converted a raw voice file
Converted(i) ==
    \E k \in 1..Len(asset_log[i].events) : asset_log[i].events[k] = "convert"

\* call i returned
Succeeded(i) == asset_log[i].raised = NoError

\* the files present when call i began
Before(i) == DOMAIN asset_log[i].before.files

\* some required file was missing from the directory of call i when it began
SomeRequiredMissing(i) ==
    \E f \in required_files :
        Join(asset_log[i].arg, f) \notin Before(i)

\* ensure_onnx_assets fetches exactly when a required file is missing
FetchesWhenMissing ==
    \A i \in CallsOf("ensure_onnx_assets") :
        Fetched(i) <=> SomeRequiredMissing(i)

\* every required file was in the directory of call i when it ended
CompleteAfter(i) ==
    \A f \in required_files :
        Join(asset_log[i].arg, f) \in DOMAIN asset_log[i].after.files

(* C18 as stated: ensure_onnx_assets fetches the asset set if and only if  *)
(* at least one of the six required files is missing from the target       *)
(* directory; after one call on a directory that returned, no later call   *)
(* on that directory fetches.                                              *)
C18_NoFetchAfterSuccess ==
    /\ FetchesWhenMissing
    /\ \A i, j \in CallsOf("ensure_onnx_assets") :
          (/\ i < j
           /\ asset_log[i].arg = asset_log[j].arg
           /\ Succeeded(i))
          => ~Fetched(j)

(* C18, amended: ensure_onnx_assets fetches if and only if at least one of *)
(* the six required files is missing from the target directory; after a    *)
(* call that left the directory complete, no later call on that directory  *)
(* fetches; a call that returned although its download left a required     *)
(* file missing is followed by a fetch in the next call on the directory.  *)
C18_FetchIffIncomplete ==
    /\ FetchesWhenMissing
    /\ \A i, j \in CallsOf("ensure_onnx_assets") :
          (i < j /\ asset_log[i].arg = asset_log[j].arg) =>
              /\ CompleteAfter(i) => ~Fetched(j)
              /\ (/\ ~CompleteAfter(i)
                  /\ \A k \in CallsOf("ensure_onnx_assets") :
                        asset_log[k].arg = asset_log[i].arg =>
                            k <= i \/ k >= j)
                 => Fetched(j)

\* a call fetched and left the directory complete, and the next call on
\* the directory did not fetch
C18_FetchedOnceThenCalledAgain ==
    /\ Len(asset_log) = 2
    /\ \A i \in 1..2 : /\ asset_log[i].op = "ensure_onnx_assets"
                       /\ asset_log[i].arg = CACHE_ONNX
                       /\ Succeeded(i)
    /\ Join(CACHE_ONNX, <<"vocoder", "onnx">>) \notin Before(1)
    /\ Join(CACHE_ONNX, <<"tts", "json">>) \in Before(1)
    /\ Fetched(1)
    /\ CompleteAfter(1)
    /\ ~Fetched(2)


\* the converted file and the raw file of the voice key of call i
ConvertedFile(i) == <<asset_log[i].dir, asset_log[i].arg, "json">>
RawFile(i) == <<VOICES_RAW, asset_log[i].arg, "bin">>

\* the calls of ensure_voice_style with a valid key
ValidKeyCalls ==
    { i \in CallsOf("ensure_voice_style") : asset_log[i].arg \in VOICES }

DownloadFailed(i) == asset_log[i].raised.message = "download failed"

\* a call returns the converted file when it exists; otherwise it downloads
\* the raw file only if that is missing, and then converts
ConvertsWhenMissing ==
    \A i \in ValidKeyCalls :
        LET call == asset_log[i]
        IN IF ConvertedFile(i) \in Before(i)
           THEN call.events = <<>> /\ Succeeded(i)
           ELSE /\ Fetched(i) <=> RawFile(i) \notin Before(i)
                /\ Converted(i) <=> ~DownloadFailed(i)
                /\ Converted(i) =>
                      call.events[Len(call.events)] = "convert"
                /\ Len(call.events) <= 2

(* C19 as stated: ensure_voice_style for a valid key returns the existing  *)
(* converted file without downloading or converting when that file exists; *)
(* otherwise it downloads the raw file only if the raw file is missing,    *)
(* and then converts; after one call for a key that returned, later calls  *)
(* for that key neither download nor convert.                              *)
C19_KeyNeverConvertedAgain ==
    /\ ConvertsWhenMissing
    /\ \A i, j \in ValidKeyCalls :
          (/\ i < j
           /\ asset_log[i].arg = asset_log[j].arg
           /\ Succeeded(i))
          => asset_log[j].events = <<>>

(* C19, amended: ensure_voice_style for a valid key returns the existing   *)
(* converted file of its styles directory without downloading or           *)
(* converting when that file exists; otherwise it downloads the raw file   *)
(* only if the raw file is missing, and then converts; after one call for  *)
(* a key and a styles directory that returned, later calls for that key    *)
(* and that directory neither download nor convert; a later call for that  *)
(* key with another directory, which holds no converted file, converts     *)
(* again.                                                                  *)
C19_ConvertedFileReused ==
    /\ ConvertsWhenMissing
    /\ \A i, j \in ValidKeyCalls :
          (/\ i < j
           /\ asset_log[i].arg = asset_log[j].arg
           /\ Succeeded(i))
          => (asset_log[i].dir = asset_log[j].dir
                 => asset_log[j].events = <<>>)

\* a key was downloaded and converted into a directory of the caller's,
\* and the next call for the key and the directory reused the file
C19_DownloadedConvertedThenReused ==
    /\ Len(asset_log) = 2
    /\ \A i \in 1..2 : /\ asset_log[i].op = "ensure_voice_style"
                       /\ asset_log[i].arg = "F1"
                       /\ asset_log[i].dir = CUSTOM_STYLES
                       /\ Succeeded(i)
    /\ asset_log[1].events = <<"hf_hub_download", "convert">>
    /\ asset_log[2].events = <<>>


\* the configuration get_config gives in call i, NoConfig when it raises
ConfigAt(i) ==
    LET call == asset_log[i]
        cfg_path == <<CACHE_ONNX, "tts", "json">>
    IN IF call.cached # NoConfig THEN call.cached
       ELSE IF /\ CACHE_ONNX \in call.before.dirs
               /\ cfg_path \in Before(i)
               /\ call.before.files[cfg_path].kind = "config"
       THEN call.before.files[cfg_path]
       ELSE NoConfig

\* call i gave raw data to the conversion: it converted, with a
\* configuration and a raw file to read
ConvertedRawData(i) ==
    /\ i \in ValidKeyCalls
    /\ Converted(i)
    /\ ConfigAt(i) # NoConfig
    /\ RawFile(i) \in DOMAIN asset_log[i].after.files

RawData(i) == asset_log[i].after.files[RawFile(i)].data

(* C20: _convert_voice_bin_to_json on raw data whose float count differs   *)
(* from latent_dim * base_chunk_size + base_chunk_size raises an error     *)
(* that names the expected and the actual count and writes no converted    *)
(* file; on data of that length the first latent_dim * base_chunk_size     *)
(* values become style_ttl with dims [1, latent_dim, base_chunk_size] and  *)
(* the remaining base_chunk_size values style_dp with dims                 *)
(* [1, 1, base_chunk_size].                                                *)
C20_SizeCheckedThenSplit ==
    \A i \in 1..Len(asset_log) :
        ConvertedRawData(i) =>
            LET call == asset_log[i]
                latent_dim == ConfigAt(i).ttl_latent_dim
                base_chunk_size == ConfigAt(i).ae_base_chunk_size
                ttl_size == latent_dim * base_chunk_size
                data == RawData(i)
                json_path == ConvertedFile(i)
            IN IF Len(data) # ttl_size + base_chunk_size
               THEN /\ call.raised.origin = "_convert_voice_bin_to_json"
                    /\ call.raised.message = "Voice file has unexpected size"
                    /\ call.raised.actual = Len(data)
                    /\ call.raised.expected = ttl_size + base_chunk_size
                    /\ json_path \notin DOMAIN call.after.files
               ELSE /\ Succeeded(i)
                    /\ json_path \in DOMAIN call.after.files
                    /\ LET style == call.after.files[json_path]
                       IN /\ style.style_ttl.dims
                               = <<1, latent_dim, base_chunk_size>>
                          /\ style.style_ttl.data
                               = [k \in 1..ttl_size |-> data[k]]
                          /\ style.style_dp.dims = <<1, 1, base_chunk_size>>
                          /\ style.style_dp.data
                               = [k \in 1..base_chunk_size |->
                                     data[ttl_size + k]]

\* a raw file of the wrong size was rejected, and one of the right size
\* was split into a directory of the caller's
C20_WrongSizeRejectedRightSizeSplit ==
    /\ \E i \in 1..Len(asset_log) :
          /\ ConvertedRawData(i)
          /\ Len(RawData(i)) = 5
          /\ asset_log[i].raised.origin = "_convert_voice_bin_to_json"
          /\ asset_log[i].raised.actual = 5
          /\ asset_log[i].raised.expected = 6
          /\ ConvertedFile(i) \notin DOMAIN fs.files
    /\ \E i \in 1..Len(asset_log) :
          /\ ConvertedRawData(i)
          /\ Len(RawData(i)) = 6
          /\ ConfigAt(i) = RepositoryConfig
          /\ asset_log[i].dir = CUSTOM_STYLES
          /\ Succeeded(i)
          /\ fs.files[ConvertedFile(i)].style_dp.data = <<5, 6>>


(***************************************************************************)
(* Properties of concatenate_wav_buffers and _array_to_wav.                *)
(***************************************************************************)
\* every buffer has the format of the first
AllSameFormat(buffers) ==
    \A i \in 1..Len(buffers) : SameFormat(buffers[i], buffers[1])

\* the length of a buffer in bytes: its header and its data section
ByteLength(b) == 44 + Len(b.data)

\* every buffer is an AudioBuffer: its data-size field is the length of
\* its data section
AllWhole(buffers) ==
    \A i \in 1..Len(buffers) : buffers[i].data_size = Len(buffers[i].data)

(* C21: for audio buffers a, b, c of one format, concatenate([concatenate( *)
(* [a, b]), c]), concatenate([a, concatenate([b, c])]) and concatenate([a, *)
(* b, c]) are the same bytes, and concatenate([b]) is b.                   *)
C21_ConcatenateAssociative ==
    (/\ Applied("concatenate_wav_buffers")
     /\ AllSameFormat(fn_args[1])
     /\ AllWhole(fn_args[1])) =>
        LET buffers == fn_args[1]
        IN /\ Len(buffers) = 1 => fn_out = buffers[1]
           /\ Len(buffers) = 3 =>
                 LET a == buffers[1]
                     b == buffers[2]
                     c == buffers[3]
                 IN /\ concatenate_wav_buffers(
                           <<concatenate_wav_buffers(<<a, b>>), c>>) = fn_out
                    /\ concatenate_wav_buffers(
                           <<a, concatenate_wav_buffers(<<b, c>>)>>) = fn_out

C21_ThreeDistinctBuffersOfOneFormat ==
    /\ Applied("concatenate_wav_buffers")
    /\ Len(fn_args[1]) = 3
    /\ AllSameFormat(fn_args[1])
    /\ AllWhole(fn_args[1])
    /\ fn_args[1][1].data # fn_args[1][2].data
    /\ fn_args[1][3].data # <<>>
    /\ IsBuffer(fn_out)
    /\ Len(fn_out.data) = 12

\* the data sections of the buffers, one after the other
RECURSIVE Payloads(_)
Payloads(buffers) ==
    IF buffers = <<>> THEN <<>>
    ELSE buffers[1].data \o Payloads(Tail(buffers))

(* C22: for two or more audio buffers of one format, concatenate returns a *)
(* buffer whose data-size field is the sum of the inputs' data sizes,      *)
(* whose RIFF size field is 36 plus that sum, whose length is 44 plus that *)
(* sum, and whose data section is the inputs' data sections in input       *)
(* order.                                                                  *)
C22_SizesAndPayloadsInOrder ==
    (/\ Applied("concatenate_wav_buffers")
     /\ Len(fn_args[1]) >= 2
     /\ AllSameFormat(fn_args[1])
     /\ AllWhole(fn_args[1])) =>
        LET total == Len(Payloads(fn_args[1]))
        IN /\ fn_out.data_size = total
           /\ fn_out.riff_size = 36 + total
           /\ ByteLength(fn_out) = 44 + total
           /\ fn_out.data = Payloads(fn_args[1])

C22_SamplesThenSilence ==
    /\ Applied("concatenate_wav_buffers")
    /\ Len(fn_args[1]) = 2
    /\ AllSameFormat(fn_args[1])
    /\ AllWhole(fn_args[1])
    /\ fn_args[1][1].data # fn_args[1][2].data
    /\ fn_out.data_size = 8
    /\ fn_out.data = fn_args[1][1].data \o fn_args[1][2].data

(* C26: every buffer concatenate returns for two or more canonical inputs  *)
(* is a canonical WAV: 'RIFF', 'WAVE', 'fmt ' with chunk size 16, audio    *)
(* format 1 (PCM), the first input's channels, sample rate and bit depth   *)
(* with byte rate and block align derived from them, and 'data'.           *)
C26_ConcatenatedIsCanonical ==
    (/\ Applied("concatenate_wav_buffers")
     /\ Len(fn_args[1]) >= 2
     /\ \A i \in 1..Len(fn_args[1]) : fn_args[1][i].audio_format = 1) =>
        LET first == fn_args[1][1]
        IN /\ fn_out.riff = "RIFF"
           /\ fn_out.wave = "WAVE"
           /\ fn_out.fmt = "fmt "
           /\ fn_out.fmt_size = 16
           /\ fn_out.audio_format = 1
           /\ fn_out.channels = first.channels
           /\ fn_out.sample_rate = first.sample_rate
           /\ fn_out.bits_per_sample = first.bits_per_sample
           /\ fn_out.block_align
                = (first.channels * first.bits_per_sample) \div 8
           /\ fn_out.byte_rate = first.sample_rate * fn_out.block_align
           /\ fn_out.data_tag = "data"

C26_AudioFormatLeftZero ==
    /\ Applied("concatenate_wav_buffers")
    /\ Len(fn_args[1]) = 2
    /\ AllSameFormat(fn_args[1])
    /\ \A i \in 1..2 : fn_args[1][i].audio_format = 1
    /\ fn_out.audio_format = 0


\* struct.unpack('<h', ...) of the i-th sample of a data section
StoredSample(data, i) ==
    LET u == data[2 * i - 1] + 256 * data[2 * i]
    IN IF u >= 32768 THEN u - 65536 ELSE u

(* C24: a buffer _array_to_wav makes from n samples at sample rate r has   *)
(* data_size 2n, RIFF size 36 + 2n, one channel, 16 bits per sample, PCM   *)
(* format 1, sample rate r, byte rate 2r and block align 2; it is 44 + 2n  *)
(* bytes long, and every stored sample is the input clipped to [-1, 1]     *)
(* and scaled by 32767, within the signed 16-bit range.                    *)
C24_HeaderMatchesSamples ==
    Applied("_array_to_wav") =>
        LET wav_array == fn_args[1]
            n == Len(wav_array)
            r == fn_args[2]
        IN /\ fn_out.data_size = 2 * n
           /\ fn_out.riff_size = 36 + 2 * n
           /\ fn_out.channels = 1
           /\ fn_out.bits_per_sample = 16
           /\ fn_out.audio_format = 1
           /\ fn_out.sample_rate = r
           /\ fn_out.byte_rate = 2 * r
           /\ fn_out.block_align = 2
           /\ ByteLength(fn_out) = 44 + 2 * n
           /\ \A i \in 1..n :
                 LET stored == StoredSample(fn_out.data, i)
                     x == wav_array[i]
                 IN /\ stored \in -32768..32767
                    /\ x >= SampleDen => stored = 32767
                    /\ x <= -SampleDen => stored = -32767
                    /\ (0 <= x /\ x < SampleDen) =>
                          stored = (x * 32767) \div SampleDen
                    /\ (-SampleDen < x /\ x < 0) =>
                          stored = -(((-x) * 32767) \div SampleDen)

C24_LoudSamplesClipped ==
    /\ Applied("_array_to_wav")
    /\ fn_args[1] = <<SampleDen + 2, -SampleDen - 1>>
    /\ fn_args[2] = 44100
    /\ fn_out.data_size = 4
    /\ StoredSample(fn_out.data, 1) = 32767
    /\ StoredSample(fn_out.data, 2) = -32767


(***************************************************************************)
(* Properties of synthesize_mixed and speak.                               *)
(***************************************************************************)
\* the positions of the silence buffers in audio_buffers of task t
SilencePositions(t) ==
    { i \in 1..Len(loc[t].kinds) : loc[t].kinds[i][1] = "silence" }

\* the positions of the segment audio buffers
SegmentPositions(t) ==
    { i \in 1..Len(loc[t].kinds) : loc[t].kinds[i][1] # "silence" }

(* C27: in synthesize_mixed every inserted silence buffer has the sample   *)
(* rate, channel count and bit depth of the segment audio buffers it is    *)
(* concatenated with, for every sample rate the configuration may give.    *)
C27_SilenceMatchesSegmentFormat ==
    \A t \in Tasks :
        req[t].op = "synthesize_mixed" =>
            \A i \in SilencePositions(t), j \in SegmentPositions(t) :
                SameFormat(loc[t].audio_buffers[i], loc[t].audio_buffers[j])

C27_SilenceAtDefaultRate ==
    \E t \in Tasks :
        /\ req[t].op = "synthesize_mixed"
        /\ loc[t].concatenated
        /\ \E i \in SilencePositions(t), j \in SegmentPositions(t) :
              /\ loc[t].audio_buffers[i].sample_rate = 24000
              /\ loc[t].audio_buffers[j].sample_rate = 44100


(* C28: for a tagged text of k >= 1 well-formed segments speak makes k     *)
(* inference runs in segment order, and the i-th run is given the i-th     *)
(* segment's own text and language, not the text of another segment or of  *)
(* the whole input.                                                        *)
C28_RunGetsSegmentText ==
    (Applied("speak") /\ fn_out.raised = NoError) =>
        LET segments == parse_language_segments(fn_args[1])
        IN /\ Len(fn_out.infers) = Len(segments)
           /\ \A i \in 1..Len(segments) :
                 /\ fn_out.infers[i].lang = segments[i][1]
                 /\ fn_out.infers[i].text = segments[i][2]

C28_EveryRunGetsWholeText ==
    /\ Applied("speak")
    /\ fn_out.raised = NoError
    /\ fn_args[1] = TwoSegmentText
    /\ Len(fn_out.infers) = 2
    /\ fn_out.infers[1].seg_text = Hi
    /\ fn_out.infers[2].seg_text = Hola
    /\ fn_out.infers[1].text = TwoSegmentText
    /\ fn_out.infers[2].text = TwoSegmentText


\* the voice files _convert_voice_bin_to_json has written
ConvertedStyles ==
    { p \in DOMAIN fs.files :
        /\ fs.files[p].kind = "style"
        /\ "style_ttl" \in DOMAIN fs.files[p] }

(* C25: the assertion at the start of _infer, that the number of texts is  *)
(* the first dimension of style.ttl, holds for every speak call, which     *)
(* runs one text per inference, with a voice style written by              *)
(* _convert_voice_bin_to_json and loaded through Style.from_dict, for      *)
(* every configuration.                                                    *)
C25_BatchAssertionHolds ==
    \A p \in ConvertedStyles :
        BatchAssertion(TextList(Hi), Style_from_dict(fs.files[p]))

C25_StyleRowsAreLatentDim ==
    \E p \in ConvertedStyles :
        /\ _config_cache = RepositoryConfig
        /\ fs.files[p].style_ttl.dims = <<1, 2, 2>>
        /\ Style_from_dict(fs.files[p]).ttl.shape = <<2, 2>>
        /\ Len(TextList(Hi)) = 1


(***************************************************************************)
(* Properties of preprocess_text with the segment parser.                  *)
(***************************************************************************)
\* a text that holds no language tag
Untagged(text) ==
    \A lang \in SUPPORTED_LANGUAGES :
        Count(text, LangOpen(lang)) = 0 /\ Count(text, LangClose(lang)) = 0

(* C29: for every untagged text and every supported language L the result  *)
(* of preprocess_text(text, L) is parsed by the engine's segment parser as *)
(* exactly one segment, with language L and a non-empty body.              *)
C29_PreprocessedTextParses ==
    (Applied("preprocess_text") /\ Untagged(fn_args[1])) =>
        LET segments == parse_language_segments(fn_out)
        IN /\ Len(segments) = 1
           /\ segments[1][1] = fn_args[2]
           /\ segments[1][2] # <<>>

C29_LessThanSignLeavesNoSegment ==
    /\ Applied("preprocess_text")
    /\ fn_args[1] = Hello \o <<"<">>
    /\ fn_args[2] = EN
    /\ fn_out = Tagged(EN, Hello \o <<"<", ".">>)
    /\ parse_language_segments(fn_out) = <<>>


(***************************************************************************)
(* Properties of core/text_processing.py.                                  *)
(***************************************************************************)
\* text, stripped, is <lang>...</lang>
WrappedIn(text, lang) ==
    LET t == Strip(text)
        n == Len(t)
    IN /\ n >= 9
       /\ SubSeq(t, 1, 4) = LangOpen(lang)
       /\ SubSeq(t, n - 4, n) = LangClose(lang)

(* C23: wrapping is idempotent: for every text and supported language L,   *)
(* wrap_with_language_tags(wrap_with_language_tags(text, L), L) is         *)
(* wrap_with_language_tags(text, L), and a text already wrapped in a       *)
(* matching <L>...</L> pair is returned without a second layer of tags.    *)
C23_WrapIdempotent ==
    Applied("wrap_with_language_tags") =>
        /\ wrap_with_language_tags(fn_out, fn_args[2]) = fn_out
        /\ WrappedIn(fn_args[1], fn_args[2]) => fn_out = Strip(fn_args[1])

C23_AngleBracketBodyWrappedOnce ==
    /\ Applied("wrap_with_language_tags")
    /\ fn_args[1] = LangOpen(ES) \o <<"<">> \o LangClose(ES)
    /\ fn_args[2] = EN
    /\ fn_out = LangOpen(EN) \o <<"<">> \o LangClose(EN)


\* a chunk made of one word: no whitespace inside
IsSingleWord(chunk) == \A i \in 1..Len(chunk) : chunk[i] \notin WhitespaceChars

\* C30: every chunk returned by split_into_chunks, for either value of
\* preserve_sentences, is non-empty and is at most max_length long unless
\* it is a single word longer than max_length.
C30_ChunksNonEmptyAndBounded ==
    (fn = "split_into_chunks" /\ fn_done)
        => \A i \in 1..Len(fn_out) :
              /\ fn_out[i] # <<>>
              /\ Len(fn_out[i]) <= fn_args[2] \/ IsSingleWord(fn_out[i])

\* the word loop has met a word that does not fit while the current chunk
\* was still empty: split_into_chunks("aaa a", 3, False)
C30_FirstWordFillsMaxLength ==
    /\ fn = "split_into_chunks" /\ fn_done
    /\ fn_args = << <<"a", "a", "a", " ", "a">>, 3, FALSE >>
    /\ Len(fn_out) = 3

====
